---------------------------- MODULE Spec2Model ----------------------------
(***************************************************************************)
(* A model of the ProofMode location-proof plugin: bundle classification   *)
(* (parseBundle), stamp building (createStampFromBundle), verification     *)
(* (verifyProofModeStamp) and evaluation (evaluateProofModeStamp).         *)
(*                                                                         *)
(* The functions of the plugin are pure; each is an operator computed the  *)
(* way the TypeScript computes it, and each specification draws the inputs *)
(* of one function in Init and applies the function in its action.         *)
(*                                                                         *)
(* JavaScript values are tagged records.  A finite number is held as       *)
(* 1000*k + r + f/FractionScale (0 <= r < 1000, 0 <= f < FractionScale),   *)
(* which keeps millisecond epoch values such as 1700000000000 and decimal  *)
(* degrees such as -73.9857 exact inside TLC's 32-bit integers.            *)
(***************************************************************************)
EXTENDS Integers, Sequences, FiniteSets, TLC

VARIABLES
    pc,            \* which call is pending: "parse", "create", "verify", "evaluate", ..., "done"
    entries,       \* parseBundle: the unzipped archive, a sequence of [name, data]
                   \* (extractSignals: the raw map; parseCSV: the fields written)
    bundle,        \* createStampFromBundle: the ParsedBundle argument
                   \* (extractSignals: the map the first application returned;
                   \* parseCSV: the metadata decoded from the vertical text)
    now,           \* createStampFromBundle: the value Date.now() returns
    stamp,         \* verify / evaluate: the LocationStamp argument
                   \* (parseCSV: the metadata decoded from the horizontal text)
    claim,         \* evaluate: the LocationClaim argument
    result         \* what the pending call returned (or the error it threw)

vars == <<pc, entries, bundle, now, stamp, claim, result>>

(***************************************************************************)
(* JavaScript values                                                       *)
(***************************************************************************)
Undef == [t |-> "undefined"]
NaN == [t |-> "NaN"]
PosInf == [t |-> "Infinity", neg |-> FALSE]
NegInf == [t |-> "Infinity", neg |-> TRUE]
Big(k, r) == [t |-> "number", k |-> k, r |-> r]
N(n) == Big(n \div 1000, n % 1000)

\* the decimal places a number of the model keeps
MaxFractionDigits == 4
RECURSIVE Pow10(_)
Pow10(n) == IF n = 0 THEN 1 ELSE 10 * Pow10(n - 1)
FractionScale == Pow10(MaxFractionDigits)
\* 1000*k + r + f/FractionScale; an integer keeps the shape Big(k, r)
Dec(k, r, f) == IF f = 0 THEN Big(k, r) ELSE [t |-> "number", k |-> k, r |-> r, f |-> f]
Frac(v) == IF "f" \in DOMAIN v THEN v.f ELSE 0
\* n/10000 in units of 1/FractionScale
TenThousandths(n) == n * (FractionScale \div 10000)
Str(s) == [t |-> "string", s |-> s]
Bool(b) == [t |-> "boolean", b |-> b]
Null == [t |-> "null"]
Obj(fields) == [t |-> "object", f |-> fields]
Arr(items) == [t |-> "array", items |-> items]
Threw(e) == [t |-> "throw", error |-> e]
\* the call ended in an exception instead of returning a record
IsThrow(r) == "t" \in DOMAIN r /\ r.t = "throw"
Interval(start, end) == [t |-> "object", start |-> start, end |-> end]
\* the coordinates in the order latitude, longitude
PointLatitudeFirst(lon, lat) ==
    Obj(("type" :> Str("Point")) @@ ("coordinates" :> Arr(<<lat, lon>>)))
Point(lon, lat) == Obj(("type" :> Str("Point")) @@ ("coordinates" :> Arr(<<lon, lat>>)))

\* typeof v === 'number'
TypeofNumber(v) == v.t \in {"number", "NaN", "Infinity"}
\* Number.isFinite(v)
IsFinite(v) == v.t = "number"
IsZero(v) == v.t = "number" /\ v.k = 0 /\ v.r = 0 /\ Frac(v) = 0

\* ToBoolean: what `!v`, `v &&` and `if (v)` test
Truthy(v) ==
    CASE v.t \in {"undefined", "null", "NaN"} -> FALSE
      [] v.t = "number" -> ~IsZero(v)
      [] v.t = "string" -> v.s # ""
      [] v.t = "boolean" -> v.b
      [] OTHER -> TRUE

\* ToNumber, for the operands of > < - Math.abs Math.floor.  The strings of
\* the model other than "" are not numeric text, so they convert to NaN.
ToNumber(v) ==
    CASE TypeofNumber(v) -> v
      [] v.t = "string" -> IF v.s = "" THEN N(0) ELSE NaN
      [] v.t = "boolean" -> IF v.b THEN N(1) ELSE N(0)
      [] OTHER -> NaN

\* a < b on finite numbers
FinLt(a, b) ==
    \/ a.k < b.k
    \/ a.k = b.k /\ a.r < b.r
    \/ a.k = b.k /\ a.r = b.r /\ Frac(a) < Frac(b)

\* a < b (false as soon as one side is NaN)
JsLt(a, b) ==
    LET x == ToNumber(a)
        y == ToNumber(b)
    IN  CASE x.t = "NaN" \/ y.t = "NaN" -> FALSE
          [] x.t = "Infinity" -> x.neg /\ ~(y.t = "Infinity" /\ y.neg)
          [] y.t = "Infinity" -> ~y.neg
          [] OTHER -> FinLt(x, y)

JsGt(a, b) == JsLt(b, a)
JsLe(a, b) == ToNumber(a).t # "NaN" /\ ToNumber(b).t # "NaN" /\ ~JsLt(b, a)

FinNeg(a) ==
    LET f == Frac(a)
        \* -(i + f/S) = -(i + 1) + (S - f)/S
        k == IF f = 0 THEN a.k ELSE IF a.r = 999 THEN a.k + 1 ELSE a.k
        r == IF f = 0 THEN a.r ELSE IF a.r = 999 THEN 0 ELSE a.r + 1
    IN  IF r = 0 THEN Dec(-k, 0, IF f = 0 THEN 0 ELSE FractionScale - f)
        ELSE Dec(-k - 1, 1000 - r, IF f = 0 THEN 0 ELSE FractionScale - f)
FinAdd(a, b) ==
    LET fs == Frac(a) + Frac(b)
        f == fs % FractionScale
        rs == a.r + b.r + (fs \div FractionScale)
    IN  Dec(a.k + b.k + (rs \div 1000), rs % 1000, f)
FinSub(a, b) == FinAdd(a, FinNeg(b))

\* a - b
JsSub(a, b) ==
    LET x == ToNumber(a)
        y == ToNumber(b)
    IN  CASE x.t = "NaN" \/ y.t = "NaN" -> NaN
          [] x.t = "Infinity" /\ y.t = "Infinity" -> IF x.neg = y.neg THEN NaN ELSE x
          [] x.t = "Infinity" -> x
          [] y.t = "Infinity" -> [t |-> "Infinity", neg |-> ~y.neg]
          [] OTHER -> FinSub(x, y)

\* the decimal places of f/FractionScale, without the trailing zeros
RECURSIVE FractionDigits(_, _)
FractionDigits(f, scale) ==
    IF f = 0 THEN ""
    ELSE ToString((10 * f) \div scale) \o FractionDigits((10 * f) % scale, scale)

\* String(v) of a finite number (below 2^31 in magnitude)
NumberToString(v) ==
    LET m == IF v.k < 0 THEN FinNeg(v) ELSE v
        digits == ToString(1000 * m.k + m.r)
                  \o (IF Frac(m) = 0 THEN "" ELSE "." \o FractionDigits(Frac(m), FractionScale))
    IN  IF v.k < 0 THEN "-" \o digits ELSE digits

\* String(v) for the values the model concatenates
JsToString(v) ==
    CASE v.t = "string" -> v.s
      [] v.t = "number" -> NumberToString(v)
      [] v.t = "NaN" -> "NaN"
      [] OTHER -> v.t

\* a + b: string concatenation as soon as one side is a string
JsAdd(a, b) ==
    IF a.t = "string" \/ b.t = "string"
    THEN Str(JsToString(a) \o JsToString(b))
    ELSE LET x == ToNumber(a)
             y == ToNumber(b)
         IN  CASE x.t = "NaN" \/ y.t = "NaN" -> NaN
               [] x.t = "Infinity" /\ y.t = "Infinity" -> IF x.neg = y.neg THEN x ELSE NaN
               [] x.t = "Infinity" -> x
               [] y.t = "Infinity" -> y
               [] OTHER -> FinAdd(x, y)

\* Math.max(a, b), Math.min(a, b)
MathMax(a, b) ==
    LET x == ToNumber(a)
        y == ToNumber(b)
    IN  IF x.t = "NaN" \/ y.t = "NaN" THEN NaN ELSE IF JsLt(x, y) THEN y ELSE x
MathMin(a, b) ==
    LET x == ToNumber(a)
        y == ToNumber(b)
    IN  IF x.t = "NaN" \/ y.t = "NaN" THEN NaN ELSE IF JsLt(y, x) THEN y ELSE x

\* Math.abs(a)
MathAbs(a) ==
    LET x == ToNumber(a)
    IN  CASE x.t = "NaN" -> NaN
          [] x.t = "Infinity" -> PosInf
          [] OTHER -> IF x.k < 0 THEN FinNeg(x) ELSE x

\* Math.floor(a / 1000)
FloorDiv1000(a) ==
    LET x == ToNumber(a)
    IN  IF x.t = "number" THEN N(x.k) ELSE x

\* obj[key] on a map held as a function from its present keys
Get(obj, key) == IF key \in DOMAIN obj THEN obj[key] ELSE Undef
\* obj[key] = value
Put(obj, key, value) == [x \in DOMAIN obj \cup {key} |-> IF x = key THEN value ELSE obj[x]]
NoKeys == [x \in {} |-> Undef]

(***************************************************************************)
(* JavaScript strings, character by character                              *)
(***************************************************************************)
CharAt(s, i) == SubSeq(s, i, i)         \* the i-th character, counting from 1
WhiteSpace == {" ", "\t", "\r", "\n"}

RECURSIVE TrimStart(_)
TrimStart(s) ==
    IF Len(s) > 0 /\ CharAt(s, 1) \in WhiteSpace THEN TrimStart(SubSeq(s, 2, Len(s))) ELSE s

RECURSIVE TrimEnd(_)
TrimEnd(s) ==
    IF Len(s) > 0 /\ CharAt(s, Len(s)) \in WhiteSpace
    THEN TrimEnd(SubSeq(s, 1, Len(s) - 1)) ELSE s

\* s.trim()
Trim(s) == TrimEnd(TrimStart(s))

\* s.indexOf(c) for a character c: counted from 0, -1 when absent
RECURSIVE IndexFrom(_, _, _)
IndexFrom(s, c, i) ==
    IF i > Len(s) THEN -1 ELSE IF CharAt(s, i) = c THEN i - 1 ELSE IndexFrom(s, c, i + 1)
IndexOf(s, c) == IndexFrom(s, c, 1)

\* s.substring(from), s.substring(from, to), counted from 0
SubstringFrom(s, from) == SubSeq(s, from + 1, Len(s))
Substring(s, from, to) == SubSeq(s, from + 1, to)

\* s.split(c) for a character c
RECURSIVE Split(_, _)
Split(s, c) ==
    LET i == IndexOf(s, c)
    IN  IF i < 0 THEN <<s>> ELSE <<Substring(s, 0, i)>> \o Split(SubstringFrom(s, i + 1), c)

StartsWith(s, prefix) == Len(s) >= Len(prefix) /\ SubSeq(s, 1, Len(prefix)) = prefix
EndsWithText(s, suffix) ==
    Len(s) >= Len(suffix) /\ SubSeq(s, Len(s) - Len(suffix) + 1, Len(s)) = suffix

UpperLetters == "ABCDEFGHIJKLMNOPQRSTUVWXYZ"
LowerLetters == "abcdefghijklmnopqrstuvwxyz"
LowerOf == [u \in {CharAt(UpperLetters, i) : i \in 1..26} |->
              CharAt(LowerLetters, IndexOf(UpperLetters, u) + 1)]
LowerChar(c) == IF c \in DOMAIN LowerOf THEN LowerOf[c] ELSE c

\* s.toLowerCase()
RECURSIVE LowerCase(_)
LowerCase(s) ==
    IF s = "" THEN "" ELSE LowerChar(CharAt(s, 1)) \o LowerCase(SubSeq(s, 2, Len(s)))

Digits == "0123456789"
DigitOf == [d \in {CharAt(Digits, i) : i \in 1..10} |-> IndexOf(Digits, d)]
IsDigit(c) == c \in DOMAIN DigitOf

\* the longest prefix of s made of digits
RECURSIVE LeadingDigits(_)
LeadingDigits(s) ==
    IF Len(s) > 0 /\ IsDigit(CharAt(s, 1))
    THEN CharAt(s, 1) \o LeadingDigits(SubSeq(s, 2, Len(s))) ELSE ""

\* the integer a digit string denotes, as <<k, r>> with value 1000*k + r
RECURSIVE DigitsValue(_, _, _)
DigitsValue(digits, k, r) ==
    IF digits = "" THEN <<k, r>>
    ELSE LET x == 10 * r + DigitOf[CharAt(digits, 1)]
         IN  DigitsValue(SubSeq(digits, 2, Len(digits)), 10 * k + (x \div 1000), x % 1000)

\* the first MaxFractionDigits decimal places, in units of 1/FractionScale
RECURSIVE FractionValue(_, _)
FractionValue(digits, places) ==
    IF places = 0 THEN 0
    ELSE (IF digits = "" THEN 0 ELSE DigitOf[CharAt(digits, 1)]) * Pow10(places - 1)
         + FractionValue(IF digits = "" THEN "" ELSE SubSeq(digits, 2, Len(digits)),
                         places - 1)

\* parseFloat(s): leading white space, a sign, then "Infinity" or the longest
\* decimal numeral; NaN when there is none.  (Numerals with an exponent part
\* or more than MaxFractionDigits decimal places are not among the inputs.)
ParseFloat(s) ==
    LET t == TrimStart(s)
        negative == StartsWith(t, "-")
        body == IF StartsWith(t, "-") \/ StartsWith(t, "+") THEN SubstringFrom(t, 1) ELSE t
        whole == LeadingDigits(body)
        rest == SubstringFrom(body, Len(whole))
        places == IF StartsWith(rest, ".") THEN LeadingDigits(SubstringFrom(rest, 1)) ELSE ""
        int == DigitsValue(whole, 0, 0)
        magnitude == Dec(int[1], int[2], FractionValue(places, MaxFractionDigits))
    IN  CASE StartsWith(body, "Infinity") -> IF negative THEN NegInf ELSE PosInf
          [] whole = "" /\ places = "" -> NaN
          [] OTHER -> IF negative THEN FinNeg(magnitude) ELSE magnitude

(***************************************************************************)
(* parse/signals.ts: extractSignals                                        *)
(*                                                                         *)
(* A raw map is the sequence of its <<key, value>> entries in insertion    *)
(* order, as Object.entries visits them.                                   *)
(***************************************************************************)
NUMERIC_FIELDS ==
    {"Location.Latitude", "Location.Longitude", "Location.Accuracy", "Location.Altitude", "Location.Bearing",
     "Location.Speed", "Location.Time", "File.Size", "Timestamp"}

ALIASES ==
    ("location.latitude" :> "Location.Latitude")
    @@ ("location.longitude" :> "Location.Longitude")
    @@ ("location.provider" :> "Location.Provider")
    @@ ("location.accuracy" :> "Location.Accuracy")
    @@ ("location.altitude" :> "Location.Altitude")
    @@ ("location.bearing" :> "Location.Bearing")
    @@ ("location.speed" :> "Location.Speed")
    @@ ("location.time" :> "Location.Time")
    @@ ("latitude" :> "Location.Latitude")
    @@ ("longitude" :> "Location.Longitude")
    @@ ("accuracy" :> "Location.Accuracy")
    @@ ("altitude" :> "Location.Altitude")
    @@ ("bearing" :> "Location.Bearing")
    @@ ("speed" :> "Location.Speed")
    @@ ("provider" :> "Location.Provider")
    @@ ("cellinfo" :> "CellInfo")
    @@ ("wifi.mac" :> "WiFi.MAC")
    @@ ("wifi mac" :> "WiFi.MAC")
    @@ ("wifimac" :> "WiFi.MAC")
    @@ ("ipv4" :> "IPv4")
    @@ ("ipv6" :> "IPv6")
    @@ ("network" :> "Network")
    @@ ("deviceid" :> "DeviceID")
    @@ ("deviceid vendor" :> "DeviceID.Vendor")
    @@ ("deviceid.vendor" :> "DeviceID.Vendor")
    @@ ("hardware" :> "Hardware")
    @@ ("manufacturer" :> "Manufacturer")
    @@ ("model" :> "Model")
    @@ ("proofhash" :> "ProofHash")
    @@ ("filehash" :> "FileHash")
    @@ ("file.hash" :> "FileHash")
    @@ ("file hash sha256" :> "FileHash")
    @@ ("mimetype" :> "MimeType")
    @@ ("file.name" :> "File.Name")
    @@ ("filename" :> "File.Name")
    @@ ("file path" :> "File.Path")
    @@ ("file.path" :> "File.Path")
    @@ ("file.size" :> "File.Size")
    @@ ("filesize" :> "File.Size")
    @@ ("file modified" :> "File.Modified")
    @@ ("file.modified" :> "File.Modified")
    @@ ("datecreated" :> "DateCreated")
    @@ ("timestamp" :> "Timestamp")
    @@ ("proof generated" :> "ProofGenerated")
    @@ ("proofgenerated" :> "ProofGenerated")
    @@ ("currentdatetime0gmt" :> "Timestamp")
    @@ ("sha256" :> "FileHash")
    @@ ("file" :> "File.Name")
    @@ ("modified" :> "File.Modified")
    @@ ("language" :> "Language")
    @@ ("locale" :> "Locale")
    @@ ("datatype" :> "DataType")
    @@ ("networktype" :> "Network")
    @@ ("screensize" :> "ScreenSize")

\* ALIASES is an object literal: a lookup also finds what it inherits from
\* Object.prototype.  Of the inherited names only these two are lower-case;
\* their values are truthy objects, and an object used as a property key is
\* converted to its string.
INHERITED ==
    ("constructor" :> "function Object() { [native code] }")
    @@ ("__proto__" :> "[object Object]")

\* ALIASES[rawKey.toLowerCase()] || rawKey
Canonical(rawKey) ==
    LET lower == LowerCase(rawKey)
    IN  IF lower \in DOMAIN ALIASES THEN ALIASES[lower]
        ELSE IF lower \in DOMAIN INHERITED THEN INHERITED[lower]
        ELSE rawKey

\* the value stored for a trimmed, non-empty text under a canonical key
TypedValue(canonical, value) ==
    IF canonical \in NUMERIC_FIELDS
    THEN LET num == ParseFloat(value)
         IN  IF num.t = "NaN" THEN Str(value) ELSE num
    ELSE Str(value)

\* the loop of extractSignals from entry i on; rawValue.trim() throws a
\* TypeError on a value that is no string
RECURSIVE ExtractFrom(_, _, _)
ExtractFrom(raw, i, signals) ==
    IF i > Len(raw) THEN signals
    ELSE LET canonical == Canonical(raw[i][1])
             rawValue == raw[i][2]
         IN  IF rawValue.t # "string" THEN Threw("TypeError")
             ELSE LET value == Trim(rawValue.s)
                  IN  IF value = "" THEN ExtractFrom(raw, i + 1, signals)
                      ELSE ExtractFrom(raw, i + 1,
                                       Put(signals, canonical, TypedValue(canonical, value)))

extractSignals(raw) == ExtractFrom(raw, 1, NoKeys)

\* Object.entries(signals) of a normalized map, whose keys are distinct
RECURSIVE ObjectEntries(_)
ObjectEntries(signals) ==
    IF DOMAIN signals = {} THEN <<>>
    ELSE LET key == CHOOSE k \in DOMAIN signals : TRUE
         IN  <<<<key, signals[key]>>>>
             \o ObjectEntries([k \in DOMAIN signals \ {key} |-> signals[k]])

(***************************************************************************)
(* parse/csv.ts: parseCSV                                                  *)
(***************************************************************************)
\* raw[key] = value on a raw map: a present key keeps its place
RawPut(raw, key, value) ==
    IF \E i \in 1..Len(raw) : raw[i][1] = key
    THEN [i \in 1..Len(raw) |-> IF raw[i][1] = key THEN <<key, value>> ELSE raw[i]]
    ELSE Append(raw, <<key, value>>)

\* raw[key]
RawGet(raw, key) ==
    IF \E i \in 1..Len(raw) : raw[i][1] = key
    THEN raw[CHOOSE i \in 1..Len(raw) : raw[i][1] = key][2]
    ELSE Undef

splitCSVLine(line) ==
    LET parts == Split(line, ",")
        kept == IF Trim(parts[Len(parts)]) = "" THEN SubSeq(parts, 1, Len(parts) - 1)
                ELSE parts
    IN  [i \in 1..Len(kept) |-> Trim(kept[i])]

\* lines.map(l => l.trim()).filter(l => l && !l.startsWith('#'))
RECURSIVE NonEmptyLines(_)
NonEmptyLines(lines) ==
    IF lines = <<>> THEN <<>>
    ELSE LET l == Trim(Head(lines))
         IN  IF l # "" /\ ~StartsWith(l, "#") THEN <<l>> \o NonEmptyLines(Tail(lines))
             ELSE NonEmptyLines(Tail(lines))

\* a detector that wants more than three columns
isHorizontalFormatFourColumns(lines) ==
    LET nonEmpty == NonEmptyLines(lines)
    IN  /\ Len(nonEmpty) >= 2
        /\ Len(splitCSVLine(nonEmpty[1])) > 3
        /\ Len(splitCSVLine(nonEmpty[2])) > 3

isHorizontalFormat(lines) ==
    LET nonEmpty == NonEmptyLines(lines)
    IN  /\ Len(nonEmpty) >= 2
        /\ Len(splitCSVLine(nonEmpty[1])) > 2
        /\ Len(splitCSVLine(nonEmpty[2])) > 2

\* the inner loop of parseHorizontal: one data row zipped with the headers
RECURSIVE ZipRow(_, _, _, _)
ZipRow(headers, values, i, raw) ==
    IF i > Len(headers) THEN raw
    ELSE LET key == headers[i]
             value == IF i <= Len(values) THEN values[i] ELSE ""
         IN  ZipRow(headers, values, i + 1,
                    IF key # "" /\ value # "" THEN RawPut(raw, key, Str(value)) ELSE raw)

RECURSIVE ZipRows(_, _, _, _)
ZipRows(headers, nonEmpty, row, raw) ==
    IF row > Len(nonEmpty) THEN raw
    ELSE ZipRows(headers, nonEmpty, row + 1,
                 ZipRow(headers, splitCSVLine(nonEmpty[row]), 1, raw))

parseHorizontal(lines) ==
    LET nonEmpty == NonEmptyLines(lines)
    IN  IF Len(nonEmpty) < 2 THEN <<>>
        ELSE ZipRows(splitCSVLine(nonEmpty[1]), nonEmpty, 2, <<>>)

\* where a line of the vertical layout is cut: at the first comma, else the
\* first tab, else the first colon, each at an index > 0; -1 when there is none
Separator(trimmed) ==
    LET commaIdx == IndexOf(trimmed, ",")
        tabIdx == IndexOf(trimmed, "\t")
        colonIdx == IndexOf(trimmed, ":")
    IN  IF commaIdx > 0 THEN commaIdx
        ELSE IF tabIdx > 0 THEN tabIdx
        ELSE IF colonIdx > 0 THEN colonIdx
        ELSE -1

\* the value with its surrounding double quotes removed (value.slice(1, -1))
Unquote(value) ==
    IF StartsWith(value, "\"") /\ EndsWithText(value, "\"")
    THEN SubSeq(value, 2, Len(value) - 1) ELSE value

RECURSIVE parseVerticalFrom(_, _)
parseVerticalFrom(lines, raw) ==
    IF lines = <<>> THEN raw
    ELSE LET trimmed == Trim(Head(lines))
             at == Separator(trimmed)
             key == Trim(Substring(trimmed, 0, at))
             value == Unquote(Trim(SubstringFrom(trimmed, at + 1)))
         IN  IF trimmed = "" \/ StartsWith(trimmed, "#") \/ at < 0
             THEN parseVerticalFrom(Tail(lines), raw)
             ELSE IF LowerCase(key) = "key" /\ LowerCase(value) = "value"
             THEN parseVerticalFrom(Tail(lines), raw)
             ELSE parseVerticalFrom(Tail(lines), RawPut(raw, key, Str(value)))

parseVertical(lines) == parseVerticalFrom(lines, <<>>)

\* a || b
JsOr(a, b) == IF Truthy(a) THEN a ELSE b

parseCSV(csvText) ==
    LET lines == Split(Trim(csvText.s), "\n")
        raw == IF isHorizontalFormat(lines) THEN parseHorizontal(lines)
               ELSE parseVertical(lines)
    IN  [signals |-> extractSignals(raw),
         format |-> "csv",
         fileHash |-> JsOr(RawGet(raw, "FileHash"), RawGet(raw, "File.Hash"))]

(***************************************************************************)
(* verify.ts: parseSafetyNetJWT                                            *)
(***************************************************************************)
\* jwt.split('.'): the token strings of the model and their parts
JwtSplit(jwt) ==
    CASE jwt = "hdr.integrity.sig" -> <<"hdr", "integrity", "sig">>
      [] jwt = "hdr.nointegrity.sig" -> <<"hdr", "nointegrity", "sig">>
      [] jwt = "hdr.garbage.sig" -> <<"hdr", "garbage", "sig">>
      [] jwt = "hdr.null.sig" -> <<"hdr", "null", "sig">>
      [] jwt = "hdr.integrity" -> <<"hdr", "integrity">>
      [] OTHER -> <<jwt>>

\* JSON.parse(Buffer.from(part, 'base64url').toString('utf-8'))
JwtPayload(part) ==
    CASE part = "integrity" ->
            Obj([basicIntegrity |-> Bool(TRUE), ctsProfileMatch |-> Bool(TRUE),
                 evaluationType |-> Str("BASIC")])
      [] part = "nointegrity" ->
            Obj([basicIntegrity |-> Undef, ctsProfileMatch |-> Bool(FALSE),
                 evaluationType |-> Undef])
      [] part = "null" -> Null
      [] OTHER -> Threw("SyntaxError")

parseSafetyNetJWT(jwt) ==
    LET parts == JwtSplit(jwt.s)
    IN  IF Len(parts) # 3 THEN Null
        ELSE LET payload == JwtPayload(parts[2])
             IN  IF payload.t # "object" THEN Null    \* SyntaxError / TypeError, caught
                 ELSE Obj([basicIntegrity |-> Bool(Truthy(payload.f.basicIntegrity)),
                           ctsProfileMatch |-> Bool(Truthy(payload.f.ctsProfileMatch)),
                           evaluationType |-> payload.f.evaluationType])

(***************************************************************************)
(* verify.ts: verifyProofModeStamp                                         *)
(***************************************************************************)
MsThreshold == Big(1000000000, 0)    \* 1e12
MaxDrift == N(3600)

\* ---- structure validation
MissingTemporalFootprint(s) ==
    \/ ~Truthy(s.temporalFootprint)
    \/ ~Truthy(s.temporalFootprint.start)
    \/ ~Truthy(s.temporalFootprint.end)

StructureDetails(s) ==
    (IF s.lpVersion # Str("0.2")
     THEN "lpVersionError" :> Str("Expected '0.2', got '" \o s.lpVersion.s \o "'")
     ELSE NoKeys)
    @@ (IF s.plugin # Str("proofmode")
        THEN "pluginMismatch" :> Str("Expected 'proofmode', got '" \o s.plugin.s \o "'")
        ELSE NoKeys)
    @@ (IF ~Truthy(s.location) THEN "missingLocation" :> Bool(TRUE) ELSE NoKeys)
    @@ (IF MissingTemporalFootprint(s)
        THEN "missingTemporalFootprint" :> Bool(TRUE) ELSE NoKeys)
    @@ (IF ~Truthy(s.signals) \/ s.signals.t # "object"
        THEN "missingSignals" :> Bool(TRUE) ELSE NoKeys)

StructureValid(s) == DOMAIN StructureDetails(s) = {}

\* ---- signature validation
SigEmptyAnyType(sig) == ~Truthy(sig.value)
SigEmpty(sig) == ~Truthy(sig.value) \/ sig.value.t # "string"
SigNoSigner(sig) == ~Truthy(sig.signer) \/ ~Truthy(sig.signer.value)

Flags(names) == [x \in names |-> Bool(TRUE)]

SignatureErrors(s) ==
    IF ~Truthy(s.signatures) \/ Len(s.signatures.items) = 0
    THEN {"noSignatures"}
    ELSE LET sigs == s.signatures.items
         IN  (IF \E i \in 1..Len(sigs) : SigEmpty(sigs[i])
              THEN {"emptySignature"} ELSE {})
             \cup (IF \E i \in 1..Len(sigs) : SigNoSigner(sigs[i])
                   THEN {"missingSigner"} ELSE {})

SignaturesValid(s) == SignatureErrors(s) = {}

SignatureDetails(s) ==
    IF ~Truthy(s.signatures) \/ Len(s.signatures.items) = 0
    THEN NoKeys
    ELSE LET sigs == s.signatures.items
         IN  ("signatureCount" :> N(Len(sigs)))
             @@ ("signatureAlgorithms" :> Arr([i \in 1..Len(sigs) |-> sigs[i].algorithm]))

\* ---- signal consistency
InvalidLatitudeNoUpper(lat) ==
    lat # Undef /\ (~TypeofNumber(lat) \/ ~IsFinite(lat) \/ JsLt(lat, N(-90)))

InvalidLatitude(lat) ==
    lat # Undef /\ (~TypeofNumber(lat) \/ ~IsFinite(lat)
                    \/ JsLt(lat, N(-90)) \/ JsGt(lat, N(90)))

InvalidLongitude(lon) ==
    lon # Undef /\ (~TypeofNumber(lon) \/ ~IsFinite(lon)
                    \/ JsLt(lon, N(-180)) \/ JsGt(lon, N(180)))

\* locationTime > 1e12 ? Math.floor(locationTime / 1000) : locationTime
LocationTimeSec(locationTime) ==
    IF JsGt(locationTime, MsThreshold) THEN FloorDiv1000(locationTime) ELSE locationTime

\* Math.abs(locationTimeSec - stamp.temporalFootprint.start)
TimestampDrift(s) ==
    MathAbs(JsSub(LocationTimeSec(Get(s.signals.f, "Location.Time")),
                  s.temporalFootprint.start))

DriftChecked(s) ==
    Truthy(Get(s.signals.f, "Location.Time")) /\ Truthy(s.temporalFootprint)

DriftExceededAtLimit(s) == DriftChecked(s) /\ ~JsLt(TimestampDrift(s), MaxDrift)

DriftExceeded(s) == DriftChecked(s) /\ JsGt(TimestampDrift(s), MaxDrift)

\* the entries of details written inside `if (stamp.signals)`
SignalDetails(s) ==
    LET sig == s.signals.f
        lat == Get(sig, "Location.Latitude")
        lon == Get(sig, "Location.Longitude")
        accuracy == Get(sig, "Location.Accuracy")
        provider == Get(sig, "Location.Provider")
        safetyNetJwt == Get(sig, "SafetyNet.JWT")
        safetyNet == parseSafetyNetJWT(safetyNetJwt)
    IN  (IF InvalidLatitude(lat) THEN "invalidLatitude" :> lat ELSE NoKeys)
        @@ (IF InvalidLongitude(lon) THEN "invalidLongitude" :> lon ELSE NoKeys)
        @@ (IF Truthy(provider) /\ accuracy # Undef
               /\ provider = Str("gps") /\ JsGt(accuracy, N(100))
            THEN "suspiciousGPSAccuracy" :> accuracy ELSE NoKeys)
        @@ (IF Truthy(provider) /\ accuracy # Undef
               /\ provider = Str("network") /\ JsLt(accuracy, N(5))
            THEN "suspiciousNetworkAccuracy" :> accuracy ELSE NoKeys)
        @@ (IF ~Truthy(safetyNetJwt) THEN NoKeys
            ELSE IF Truthy(safetyNet)
                 THEN "safetyNet" :> safetyNet
                 ELSE "safetyNetParseError" :> Bool(TRUE))
        @@ (IF DriftExceeded(s) THEN "timestampDrift" :> TimestampDrift(s) ELSE NoKeys)

\* consistency that also fails on a suspicious accuracy or an undecodable token
SignalsConsistentWithAdvisories(s) ==
    ~Truthy(s.signals)
    \/ ~(\/ InvalidLatitude(Get(s.signals.f, "Location.Latitude"))
         \/ InvalidLongitude(Get(s.signals.f, "Location.Longitude"))
         \/ DriftExceeded(s)
         \/ \E k \in {"suspiciousGPSAccuracy", "suspiciousNetworkAccuracy",
                       "safetyNetParseError"} : k \in DOMAIN SignalDetails(s))

SignalsConsistent(s) ==
    ~Truthy(s.signals)
    \/ ~(\/ InvalidLatitude(Get(s.signals.f, "Location.Latitude"))
         \/ InvalidLongitude(Get(s.signals.f, "Location.Longitude"))
         \/ DriftExceeded(s))

\* a verifier that stops at the first check that fails
verifyStoppingAtFirstFailure(s) ==
    LET structureValid == StructureValid(s)
        signaturesValid == ~structureValid \/ SignaturesValid(s)
        signalsConsistent == ~structureValid \/ ~signaturesValid \/ SignalsConsistent(s)
    IN  [valid |-> structureValid /\ signaturesValid /\ signalsConsistent,
         structureValid |-> structureValid,
         signaturesValid |-> signaturesValid,
         signalsConsistent |-> signalsConsistent,
         details |-> StructureDetails(s)
                     @@ (IF structureValid
                         THEN Flags(SignatureErrors(s)) @@ SignatureDetails(s) ELSE NoKeys)
                     @@ (IF structureValid /\ signaturesValid /\ Truthy(s.signals)
                         THEN SignalDetails(s) ELSE NoKeys)]

verifyProofModeStamp(s) ==
    LET structureValid == StructureValid(s)
        signaturesValid == SignaturesValid(s)
        signalsConsistent == SignalsConsistent(s)
    IN  [valid |-> structureValid /\ signaturesValid /\ signalsConsistent,
         structureValid |-> structureValid,
         signaturesValid |-> signaturesValid,
         signalsConsistent |-> signalsConsistent,
         details |-> StructureDetails(s) @@ Flags(SignatureErrors(s))
                     @@ SignatureDetails(s)
                     @@ (IF Truthy(s.signals) THEN SignalDetails(s) ELSE NoKeys)]

(***************************************************************************)
(* evaluate.ts                                                             *)
(*                                                                         *)
(* Scores are fractions.  A finite score is Ratio(num, den) in lowest      *)
(* terms with den > 0; the arithmetic is exact where the code's is IEEE    *)
(* double arithmetic.  NaN and the infinities are the values above.        *)
(***************************************************************************)
RECURSIVE Gcd(_, _)
Gcd(a, b) == IF b = 0 THEN a ELSE Gcd(b, a % b)
Abs(n) == IF n < 0 THEN -n ELSE n

Ratio(num, den) ==
    LET g == Gcd(Abs(num), Abs(den))
        sgn == IF den < 0 THEN -1 ELSE 1
    IN  [t |-> "ratio", num |-> sgn * (num \div g), den |-> sgn * (den \div g)]

\* a finite number of the stamp or claim as a fraction
ToRatio(v) ==
    IF Frac(v) = 0 THEN Ratio(1000 * v.k + v.r, 1)
    ELSE Ratio((1000 * v.k + v.r) * FractionScale + v.f, FractionScale)

RatLt(a, b) == a.num * b.den < b.num * a.den
RatAdd(a, b) == Ratio(a.num * b.den + b.num * a.den, a.den * b.den)
RatSub(a, b) == Ratio(a.num * b.den - b.num * a.den, a.den * b.den)
RatMul(a, b) == Ratio(a.num * b.num, a.den * b.den)

\* a / b
RatDiv(a, b) ==
    CASE a.t = "NaN" \/ b.t = "NaN" -> NaN
      [] b.num = 0 -> IF a.num = 0 THEN NaN ELSE IF a.num > 0 THEN PosInf ELSE NegInf
      [] OTHER -> Ratio(a.num * b.den, a.den * b.num)

\* 1.0 - x
OneMinus(x) ==
    CASE x.t = "NaN" -> NaN
      [] x.t = "Infinity" -> [t |-> "Infinity", neg |-> ~x.neg]
      [] OTHER -> RatSub(Ratio(1, 1), x)

\* a > b, a <= b on scores (false as soon as one side is NaN)
ScoreLt(a, b) ==
    CASE a.t = "NaN" \/ b.t = "NaN" -> FALSE
      [] a.t = "Infinity" -> a.neg /\ ~(b.t = "Infinity" /\ b.neg)
      [] b.t = "Infinity" -> ~b.neg
      [] OTHER -> RatLt(a, b)
ScoreGt(a, b) == ScoreLt(b, a)
ScoreLe(a, b) == a.t # "NaN" /\ b.t # "NaN" /\ ~ScoreLt(b, a)

\* Math.max / Math.min on scores
ScoreMax(a, b) == IF a.t = "NaN" \/ b.t = "NaN" THEN NaN ELSE IF ScoreLt(a, b) THEN b ELSE a
ScoreMin(a, b) == IF a.t = "NaN" \/ b.t = "NaN" THEN NaN ELSE IF ScoreLt(b, a) THEN b ELSE a

\* a number of the stamp or claim as a score operand
ToScore(v) ==
    LET x == ToNumber(v)
    IN  IF x.t = "number" THEN ToRatio(x) ELSE x

MAX_PROOFMODE_SPATIAL == Ratio(7, 10)
MetresPerDegree == 111195    \* EARTH_RADIUS_M * PI / 180, to the metre

\* haversineDistance, in metres, for two points on one meridian or both on the
\* equator and less than 180 degrees apart (there the formula gives the arc
\* EARTH_RADIUS_M * angle); NaN as soon as an ordinate is not a number.
haversineDistance(lat1, lon1, lat2, lon2) ==
    IF \E c \in {lat1, lon1, lat2, lon2} : ToNumber(c).t # "number"
    THEN NaN
    ELSE LET la1 == ToRatio(ToNumber(lat1)).num
             lo1 == ToRatio(ToNumber(lon1)).num
             la2 == ToRatio(ToNumber(lat2)).num
             lo2 == ToRatio(ToNumber(lon2)).num
         IN  IF lo1 = lo2 THEN Ratio(MetresPerDegree * Abs(la1 - la2), 1)
             ELSE Ratio(MetresPerDegree * Abs(lo1 - lo2), 1)

\* the overlap divided by the longer of the two durations
temporalOverlapOfLonger(a, b) ==
    LET overlapStart == MathMax(a.start, b.start)
        overlapEnd == MathMin(a.end, b.end)
        overlap == JsSub(overlapEnd, overlapStart)
        longer == MathMax(JsSub(a.end, a.start), JsSub(b.end, b.start))
    IN  IF JsLe(overlapEnd, overlapStart) THEN Ratio(0, 1)
        ELSE IF JsGt(longer, N(0)) THEN RatDiv(ToScore(overlap), ToScore(longer))
        ELSE Ratio(0, 1)

temporalOverlap(a, b) ==
    LET overlapStart == MathMax(a.start, b.start)
        overlapEnd == MathMin(a.end, b.end)
        overlap == JsSub(overlapEnd, overlapStart)
        shorter == MathMin(JsSub(a.end, a.start), JsSub(b.end, b.start))
    IN  IF JsLe(overlapEnd, overlapStart) THEN Ratio(0, 1)
        ELSE IF JsGt(shorter, N(0)) THEN RatDiv(ToScore(overlap), ToScore(shorter))
        ELSE Ratio(0, 1)

extractCoords(location) ==
    IF location.t = "object" /\ "coordinates" \in DOMAIN location.f
    THEN LET coords == location.f["coordinates"]
         IN  IF coords.t = "array" /\ Len(coords.items) >= 2
             THEN [lon |-> coords.items[1], lat |-> coords.items[2]]
             ELSE Null
    ELSE Null

\* (stamp.signals['Location.Accuracy'] as number) ?? 0
Accuracy(s) ==
    LET found == Get(s.signals.f, "Location.Accuracy")
    IN  IF found \in {Undef, Null} THEN N(0) ELSE found

\* claim.radius + accuracy
EffectiveRadius(s, c) == JsAdd(c.radius, Accuracy(s))

\* the spatial score before the cap
\* a decay that reaches 0 at twice the effective radius
SpatialUncappedDecayOverTwo(distance, effectiveRadius) ==
    IF ScoreLe(distance, effectiveRadius)
    THEN OneMinus(RatDiv(distance, effectiveRadius))
    ELSE ScoreMax(Ratio(0, 1),
                  OneMinus(RatDiv(distance,
                                  IF effectiveRadius.t = "ratio"
                                  THEN RatMul(effectiveRadius, Ratio(2, 1))
                                  ELSE effectiveRadius)))

SpatialUncapped(distance, effectiveRadius) ==
    IF ScoreLe(distance, effectiveRadius)
    THEN OneMinus(RatDiv(distance, effectiveRadius))
    ELSE ScoreMax(Ratio(0, 1),
                  OneMinus(RatDiv(distance,
                                  IF effectiveRadius.t = "ratio"
                                  THEN RatMul(effectiveRadius, Ratio(3, 1))
                                  ELSE effectiveRadius)))

Spatial(distance, effectiveRadius) ==
    ScoreMin(SpatialUncapped(distance, effectiveRadius), MAX_PROOFMODE_SPATIAL)

IsTrue(v) == v = Bool(TRUE) \/ v = Str("true")

\* the bonuses and penalties, as <<amount, detail key>>
SignalAdjustments(sig) ==
    (IF IsTrue(Get(sig, "SafetyNet.BasicIntegrity"))
     THEN {<<Ratio(5, 100), "safetyNetBonus">>} ELSE {})
    \cup (IF IsTrue(Get(sig, "HasOTS")) THEN {<<Ratio(3, 100), "otsBonus">>} ELSE {})
    \cup (IF Get(sig, "Location.Provider") = Str("network")
          THEN {<<Ratio(-10, 100), "networkOnlyPenalty">>} ELSE {})
    \cup (IF Get(sig, "CellInfo") = Undef /\ Get(sig, "WiFi.MAC") = Undef
          THEN {<<Ratio(-5, 100), "missingNetworkContext">>} ELSE {})

RECURSIVE SumAdjustments(_)
SumAdjustments(adj) ==
    IF adj = {} THEN Ratio(0, 1)
    ELSE LET a == CHOOSE x \in adj : TRUE
         IN  RatAdd(a[1], SumAdjustments(adj \ {a}))

SignalBonus(sig) == SumAdjustments(SignalAdjustments(sig))

\* spatial * 0.6 + temporal * 0.4 + signalBonus
RawScore(spatial, temporal, signalBonus) ==
    IF spatial.t = "NaN" \/ temporal.t = "NaN" THEN NaN
    ELSE RatAdd(RatAdd(RatMul(spatial, Ratio(6, 10)), RatMul(temporal, Ratio(4, 10))),
                signalBonus)

\* Math.max(0, Math.min(1, rawScore))
Clamp01(rawScore) == ScoreMax(Ratio(0, 1), ScoreMin(Ratio(1, 1), rawScore))

\* the decision without its temporal gate
SupportsClaimNoTemporal(score, spatial, temporal) ==
    /\ ScoreGt(score, Ratio(3, 10))
    /\ ScoreGt(spatial, Ratio(1, 10))

SupportsClaim(score, spatial, temporal) ==
    /\ ScoreGt(score, Ratio(3, 10))
    /\ ScoreGt(spatial, Ratio(1, 10))
    /\ ScoreGt(temporal, Ratio(0, 1))

ZeroVector(error) ==
    [supportsClaim |-> FALSE, score |-> Ratio(0, 1), spatial |-> Ratio(0, 1),
     temporal |-> Ratio(0, 1), details |-> ("error" :> Str(error))]

evaluateProofModeStamp(s, c) ==
    LET stampCoords == extractCoords(s.location)
        claimCoords == extractCoords(c.location)
    IN  IF stampCoords = Null THEN ZeroVector("Cannot extract coordinates from stamp")
        ELSE IF claimCoords = Null THEN ZeroVector("Cannot extract coordinates from claim")
        ELSE IF s.signals = Undef THEN Threw("TypeError")       \* stamp.signals[...]
        ELSE IF s.temporalFootprint = Undef \/ c.time = Undef
             THEN Threw("TypeError")                             \* a.start, b.start
        ELSE
        LET distance == haversineDistance(stampCoords.lat, stampCoords.lon,
                                          claimCoords.lat, claimCoords.lon)
            effectiveRadius == EffectiveRadius(s, c)
            spatial == Spatial(distance, ToScore(effectiveRadius))
            temporal == temporalOverlap(s.temporalFootprint, c.time)
            signalBonus == SignalBonus(s.signals.f)
            score == Clamp01(RawScore(spatial, temporal, signalBonus))
        IN  [supportsClaim |-> SupportsClaim(score, spatial, temporal),
             score |-> score,
             spatial |-> spatial,
             temporal |-> temporal,
             details |->
                 ("distanceMeters" :> distance)
                 @@ ("effectiveRadiusMeters" :> effectiveRadius)
                 @@ ("accuracyMeters" :> Accuracy(s))
                 @@ ("temporalOverlap" :> temporal)
                 @@ ("signalBonus" :> signalBonus)
                 @@ [k \in {a[2] : a \in SignalAdjustments(s.signals.f)} |-> Bool(TRUE)]]


(***************************************************************************)
(* create.ts: createStampFromBundle                                        *)
(***************************************************************************)
Bytes(data) == [t |-> "bytes", data |-> data]       \* a Uint8Array

\* new Date(text).getTime(): epoch milliseconds, NaN when the text is no date
DateGetTime(text) ==
    CASE text = "2023-11-14T12:00:00Z" -> Big(1699963200, 0)
      [] text = "1970-01-01T00:00:00Z" -> N(0)
      [] OTHER -> NaN

\* btoa of the signature bytes
Btoa(data) == [t |-> "string", s |-> "base64", of |-> data]

CoordinatesMissing(lat, lon) ==
    \/ ~TypeofNumber(lat) \/ ~IsFinite(lat)
    \/ ~TypeofNumber(lon) \/ ~IsFinite(lon)

\* the footprint start: Location.Time, else Timestamp, else DateCreated, else now
\* a start time read from the clock whatever the signals are
StartTimeFromClock(signals, clock) == FloorDiv1000(clock)

StartTime(signals, clock) ==
    LET locationTimeMs == Get(signals, "Location.Time")
        timestamp == Get(signals, "Timestamp")
        dateCreated == Get(signals, "DateCreated")
    IN  IF Truthy(locationTimeMs)
        THEN IF JsGt(locationTimeMs, MsThreshold)
             THEN FloorDiv1000(locationTimeMs) ELSE locationTimeMs
        ELSE IF Truthy(timestamp) THEN timestamp
        ELSE IF Truthy(dateCreated) THEN FloorDiv1000(DateGetTime(dateCreated.s))
        ELSE FloorDiv1000(clock)

\* the entries added to the copied signals, later ones overwriting
DerivedSignals(b) ==
    (IF Truthy(b.expectedHash) THEN "FileHash" :> b.expectedHash ELSE NoKeys)
    @@ (IF Truthy(b.metadataSignature) /\ Len(b.metadataSignature.data) > 0
        THEN "PGP.MetadataSignature" :> Btoa(b.metadataSignature.data) ELSE NoKeys)
    @@ (IF Truthy(b.publicKey)
        THEN ("HasPGPKey" :> Bool(TRUE)) @@ ("PGP.PublicKey" :> b.publicKey) ELSE NoKeys)
    @@ (IF Truthy(b.otsProof) THEN "HasOTS" :> Bool(TRUE) ELSE NoKeys)
    @@ (IF Truthy(b.deviceCheckAttestation)
        THEN "DeviceCheck.Attestation" :> b.deviceCheckAttestation ELSE NoKeys)
    @@ (IF Truthy(b.safetyNetToken) THEN "SafetyNet.JWT" :> b.safetyNetToken ELSE NoKeys)

createStampFromBundle(b, pluginVersion, clock) ==
    LET signals == b.metadata.signals
        lat == Get(signals, "Location.Latitude")
        lon == Get(signals, "Location.Longitude")
        startTime == StartTime(signals, clock)
        endTime == JsAdd(startTime, N(1))
    IN  IF CoordinatesMissing(lat, lon)
        THEN Threw("ProofMode bundle missing or invalid Location.Latitude/Location.Longitude")
        ELSE [lpVersion |-> Str("0.2"),
              locationType |-> Str("geojson-point"),
              location |-> Point(lon, lat),
              srs |-> Str("http://www.opengis.net/def/crs/OGC/1.3/CRS84"),
              temporalFootprint |-> Interval(startTime, endTime),
              plugin |-> Str("proofmode"),
              pluginVersion |-> pluginVersion,
              signals |-> Obj(DerivedSignals(b) @@ signals)]

(***************************************************************************)
(* parse/bundle.ts: parseBundle                                            *)
(*                                                                         *)
(* An entry name is a sequence of tokens (a directory prefix, a stem, a    *)
(* dotted suffix): every pattern the classifier tests is a whole number of *)
(* tokens.  An entry's data is the text its bytes decode to.               *)
(***************************************************************************)
\* name.toLowerCase(), token by token
LowerToken(tok) ==
    CASE tok = "<HEX64>" -> "<hex64>"
      [] tok = ".PROOF" -> ".proof"
      [] tok = ".CSV" -> ".csv"
      [] tok = ".JSON" -> ".json"
      [] tok = ".JPG" -> ".jpg"
      [] tok = "HowTo" -> "howto"
      [] OTHER -> tok

ToLowerCase(name) == [i \in 1..Len(name) |-> LowerToken(name[i])]

EndsWith(name, suffix) ==
    /\ Len(name) >= Len(suffix)
    /\ SubSeq(name, Len(name) - Len(suffix) + 1, Len(name)) = suffix

\* name.split('/').pop(): what follows the last directory token
RECURSIVE BaseName(_)
BaseName(name) ==
    IF \E i \in 1..Len(name) : name[i] = "dir/" THEN BaseName(Tail(name)) ELSE name

\* the tokens that start with a dot: the only places a name has a '.'
DottedTokens ==
    {".proof", ".PROOF", ".csv", ".CSV", ".json", ".JSON", ".asc", ".gst",
     ".devicecheck", ".ots", ".txt", ".jpg", ".JPG", ".mp4", ".bin"}

\* lower.includes('proof')
IncludesProof(lower) == \E i \in 1..Len(lower) : lower[i] \in {".proof", "proofsheet"}

MEDIA_EXTENSIONS ==
    {".jpg", ".jpeg", ".png", ".gif", ".bmp", ".webp", ".heic", ".heif",
     ".mp4", ".mov", ".avi", ".mkv", ".webm", ".3gp",
     ".mp3", ".wav", ".aac", ".ogg", ".m4a"}

\* any name with an extension counts as media
isMediaFileAnyExtension(name) ==
    /\ \E i \in 1..Len(name) : name[i] \in DottedTokens
    /\ name[Len(name)] \in DottedTokens

\* the text from the last '.' on is a known extension
isMediaFile(name) ==
    /\ \E i \in 1..Len(name) : name[i] \in DottedTokens
    /\ name[Len(name)] \in DottedTokens
    /\ LowerToken(name[Len(name)]) \in MEDIA_EXTENSIONS

\* the branch of the if / else-if chain an entry takes
Role(name) ==
    LET lower == ToLowerCase(name)
        baseName == BaseName(lower)
    IN  CASE EndsWith(lower, <<".proof", ".csv">>) -> "csvData"
          [] EndsWith(lower, <<".proof", ".json">>) -> "jsonData"
          [] baseName = <<"pubkey", ".asc">> -> "publicKey"
          [] EndsWith(lower, <<".proof", ".csv", ".asc">>) -> "csvSignature"
          [] EndsWith(lower, <<".proof", ".json", ".asc">>) -> "jsonSignature"
          [] EndsWith(lower, <<".gst">>) -> "safetyNetToken"
          [] EndsWith(lower, <<".devicecheck">>) -> "deviceCheckAttestation"
          [] EndsWith(lower, <<".ots">>) -> "otsProof"
          [] EndsWith(lower, <<".txt">>) -> "documentation"
          [] /\ EndsWith(lower, <<".asc">>) /\ ~IncludesProof(lower)
             /\ baseName # <<"pubkey", ".asc">> -> "mediaSignature"
          [] isMediaFile(name) -> "mediaFile"
          [] OTHER -> "unclassified"

\* the locals of parseBundle before the loop
NoSlots ==
    [csvData |-> Undef, jsonData |-> Undef, publicKey |-> Undef,
     metadataSignature |-> Undef, mediaSignature |-> Undef, safetyNetToken |-> Undef,
     deviceCheckAttestation |-> Undef, otsProof |-> Undef, mediaFile |-> Undef,
     mediaFileName |-> Undef]

\* the JSON signature taken whatever was assigned before
FallbackSignatureAlways(current, data) == data

\* if (!metadataSignature) metadataSignature = data
FallbackSignature(current, data) == IF ~Truthy(current) THEN data ELSE current

\* one iteration of the loop over Object.entries(entries)
Classify(slots, entry) ==
    LET role == Role(entry.name)
        data == Bytes(entry.data)
        text == Str(entry.data)           \* decoder.decode(data)
    IN  CASE role = "csvData" -> [slots EXCEPT !.csvData = data]
          [] role = "jsonData" -> [slots EXCEPT !.jsonData = data]
          [] role = "publicKey" -> [slots EXCEPT !.publicKey = text]
          [] role = "csvSignature" -> [slots EXCEPT !.metadataSignature = data]
          [] role = "jsonSignature" ->
                [slots EXCEPT !.metadataSignature = FallbackSignature(@, data)]
          [] role = "safetyNetToken" -> [slots EXCEPT !.safetyNetToken = text]
          [] role = "deviceCheckAttestation" ->
                [slots EXCEPT !.deviceCheckAttestation = text]
          [] role = "otsProof" -> [slots EXCEPT !.otsProof = data]
          [] role = "mediaSignature" -> [slots EXCEPT !.mediaSignature = data]
          [] role = "mediaFile" ->
                [slots EXCEPT !.mediaFile = data, !.mediaFileName = entry.name]
          [] OTHER -> slots

RECURSIVE ClassifyAll(_, _)
ClassifyAll(slots, zip) ==
    IF zip = <<>> THEN slots ELSE ClassifyAll(Classify(slots, Head(zip)), Tail(zip))

\* A parsed JSON object keeps its members in document order.
JsonObj(members) == [t |-> "object", members |-> members]

\* String(value) of a parsed JSON value that is stored as a leaf; an array
\* joins the strings of its items with commas, null items giving ""
RECURSIVE StringOf(_), JoinItems(_)
JoinItems(items) ==
    IF items = <<>> THEN ""
    ELSE LET first == IF Head(items).t = "null" THEN "" ELSE StringOf(Head(items))
         IN  IF Len(items) = 1 THEN first ELSE first \o "," \o JoinItems(Tail(items))
StringOf(value) ==
    CASE value.t = "string" -> value.s
      [] value.t = "number" -> NumberToString(value)
      [] value.t = "boolean" -> IF value.b THEN "true" ELSE "false"
      [] value.t = "null" -> "null"
      [] value.t = "array" -> JoinItems(value.items)
      [] OTHER -> "[object Object]"

\* Object.entries(obj): the members of an object, the indexed items of an array
MembersOf(obj) ==
    IF obj.t = "array"
    THEN [i \in 1..Len(obj.items) |-> <<ToString(i - 1), obj.items[i]>>]
    ELSE obj.members

\* the largest number of entries of an archive
MaxEntries == 3

\* the text of the i-th entry of an archive when it is a JSON document
JsonText(i) == "{\"Model\":\"u" \o ToString(i) \o "\"}"

\* JSON.parse(jsonText) on the texts archives carry; it throws on text that
\* is no JSON document (the model's only such text is the empty one)
JSONParse(jsonText) ==
    IF \E i \in 1..MaxEntries : jsonText.s = JsonText(i)
    THEN LET i == CHOOSE i \in 1..MaxEntries : jsonText.s = JsonText(i)
         IN  JsonObj(<<<<"Model", Str("u" \o ToString(i))>>>>)
    ELSE Threw("SyntaxError")

\* flattenObject(obj, prefix, result), from member i on; flat is result
RECURSIVE flattenFrom(_, _, _, _)
flattenFrom(members, i, prefix, flat) ==
    IF i > Len(members) THEN flat
    ELSE LET key == members[i][1]
             value == members[i][2]
             fullKey == IF prefix # "" THEN prefix \o "." \o key ELSE key
         IN  IF value.t = "object"
             THEN flattenFrom(members, i + 1, prefix,
                              flattenFrom(MembersOf(value), 1, fullKey, flat))
             ELSE flattenFrom(members, i + 1, prefix,
                              RawPut(flat, fullKey, Str(StringOf(value))))

flattenObject(obj, prefix, flat) == flattenFrom(MembersOf(obj), 1, prefix, flat)

\* parseJSON after JSON.parse: typeof parsed === 'object' && parsed !== null
\* holds for objects and for arrays
parseJSONDocument(parsed) ==
    LET raw == IF parsed.t \in {"object", "array"}
               THEN flattenObject(parsed, "", <<>>) ELSE <<>>
    IN  [signals |-> extractSignals(raw),
         format |-> "json",
         fileHash |-> JsOr(RawGet(raw, "FileHash"), RawGet(raw, "File.Hash"))]

parseJSON(jsonText) ==
    LET parsed == JSONParse(jsonText)
    IN  IF IsThrow(parsed) THEN parsed ELSE parseJSONDocument(parsed)

\* csvFile.name.split('/').pop()?.replace('.proof.csv', ''): the first
\* '.proof.csv' (in lower case only) is removed from the base name
RECURSIVE RemoveProofCsv(_)
RemoveProofCsv(base) ==
    IF Len(base) < 2 THEN base
    ELSE IF base[1] = ".proof" /\ base[2] = ".csv" THEN SubSeq(base, 3, Len(base))
    ELSE <<Head(base)>> \o RemoveProofCsv(Tail(base))

\* /^[a-f0-9]{64}$/i.test(hashPart)
IsHex64(hashPart) == hashPart \in {<<"<hex64>">>, <<"<HEX64>">>}

\* files.find(f => f.name.toLowerCase().endsWith('.proof.csv'))
FirstCsvFile(zip) ==
    LET hits == {i \in 1..Len(zip) : EndsWith(ToLowerCase(zip[i].name), <<".proof", ".csv">>)}
    IN  IF hits = {} THEN Undef
        ELSE zip[CHOOSE i \in hits : \A j \in hits : i <= j]

ExpectedHash(slots, zip) ==
    IF ~Truthy(slots.csvData) THEN Undef
    ELSE LET csvFile == FirstCsvFile(zip)
         IN  IF csvFile = Undef THEN Undef
             ELSE LET hashPart == RemoveProofCsv(BaseName(csvFile.name))
                  IN  IF hashPart # <<>> /\ IsHex64(hashPart)
                      THEN [t |-> "string", s |-> hashPart[1]] ELSE Undef

\* the selection with the two sources tried in the other order
MetadataJsonFirst(slots) ==
    IF Truthy(slots.jsonData) THEN parseJSON(Str(slots.jsonData.data))
    ELSE IF Truthy(slots.csvData) THEN parseCSV(Str(slots.csvData.data))
    ELSE Threw("ProofMode bundle missing metadata (no .proof.csv or .proof.json found)")

\* which metadata the bundle gets: from the CSV if there is one, else the JSON
Metadata(slots) ==
    IF Truthy(slots.csvData) THEN parseCSV(Str(slots.csvData.data))
    ELSE IF Truthy(slots.jsonData) THEN parseJSON(Str(slots.jsonData.data))
    ELSE Threw("ProofMode bundle missing metadata (no .proof.csv or .proof.json found)")

parseBundle(zip) ==
    LET slots == ClassifyAll(NoSlots, zip)
        metadata == Metadata(slots)
    IN  IF "t" \in DOMAIN metadata
        THEN metadata                              \* the error propagates
        ELSE [metadata |-> metadata,
              publicKey |-> slots.publicKey,
              metadataSignature |-> slots.metadataSignature,
              mediaSignature |-> slots.mediaSignature,
              safetyNetToken |-> slots.safetyNetToken,
              deviceCheckAttestation |-> slots.deviceCheckAttestation,
              otsProof |-> slots.otsProof,
              mediaFile |-> slots.mediaFile,
              mediaFileName |-> slots.mediaFileName,
              expectedHash |-> ExpectedHash(slots, zip),
              files |-> zip]

Idle == Undef

(***************************************************************************)
(* Inputs of the verifier: stamps as a caller may hand them in, well       *)
(* formed or not (the signatures are attached outside this plugin).        *)
(***************************************************************************)
MaxSignatures == 2

Signer(v) == [t |-> "object", value |-> v]
Signature(value, signer) == [value |-> value, signer |-> signer, algorithm |-> Str("pgp")]
GoodSignature == Signature(Str("fake-pgp-signature"), Signer(Str("ABCD1234")))

SignatureChoices ==
    { GoodSignature,
      Signature(Str(""), Signer(Str("ABCD1234"))),
      Signature(Str("fake-pgp-signature"), Undef) }

RECURSIVE SeqsUpTo(_, _)
SeqsUpTo(S, n) ==
    IF n = 0 THEN {<<>>}
    ELSE LET shorter == SeqsUpTo(S, n - 1)
         IN  shorter \cup {Append(q, x) : q \in {r \in shorter : Len(r) = n - 1}, x \in S}

SignatureLists ==
    {Undef, Arr(<<Signature(N(7), Signer(Str("ABCD1234")))>>),
     Arr(<<Signature(Str("fake-pgp-signature"), Signer(Str("")))>>)}
    \cup {Arr(q) : q \in SeqsUpTo(SignatureChoices, MaxSignatures)}


\* lpVersion, plugin and location: right, or wrong in one place
VerifyHeaders ==
    { [lpVersion |-> Str("0.2"), plugin |-> Str("proofmode"), location |-> Point(N(-74), N(41))],
      [lpVersion |-> Str("0.1"), plugin |-> Str("proofmode"), location |-> Point(N(-74), N(41))],
      [lpVersion |-> Str("0.2"), plugin |-> Str("witnesschain"), location |-> Point(N(-74), N(41))],
      [lpVersion |-> Str("0.2"), plugin |-> Str("proofmode"), location |-> Undef] }

VerifyFootprints ==
    { Undef,
      Interval(N(0), N(1)),
      Interval(N(-1), N(0)),
      Interval(N(1700000000), N(1700000001)) }

\* <<Location.Latitude, Location.Longitude>>
VerifyCoordinates ==
    { <<Undef, Undef>>, <<N(-90), N(180)>>, <<N(90), N(-180)>>,
      <<N(-91), N(0)>>, <<N(91), N(0)>>, <<N(0), N(-181)>>, <<N(0), N(181)>>,
      <<N(999), N(-999)>>, <<NaN, N(0)>>, <<N(0), PosInf>>,
      <<Str("n/a"), N(0)>>, <<Undef, Str("n/a")>> }

VerifyLocationTimes ==
    { Undef, N(0), N(1700000000),
      Big(1700000000, 0),        \* 1700000000000 ms
      Big(1700003600, 999),      \* 1700003600999 ms: 3600 s after 1700000000
      Big(1700003601, 0),        \* 1700003601000 ms: 3601 s after 1700000000
      Str("unknown") }

\* provider / accuracy / attestation token: the advisory inputs
VerifyAdvisories ==
    { NoKeys,
      ("Location.Provider" :> Str("gps")) @@ ("Location.Accuracy" :> N(200)),
      ("Location.Provider" :> Str("network")) @@ ("Location.Accuracy" :> N(3)),
      ("SafetyNet.JWT" :> Str("hdr.integrity.sig")),
      ("SafetyNet.JWT" :> Str("not-a-jwt")) }

\* a map with the entries whose value is present
Present(m) == [k \in {x \in DOMAIN m : m[x] # Undef} |-> m[k]]

VerifySignals ==
    {Undef} \cup
    { Obj(Present(("Location.Latitude" :> c[1]) @@ ("Location.Longitude" :> c[2])
                  @@ ("Location.Time" :> time)) @@ adv) :
        c \in VerifyCoordinates, time \in VerifyLocationTimes, adv \in VerifyAdvisories }

InitVerify ==
    /\ pc = "verify"
    /\ \E h \in VerifyHeaders, tf \in VerifyFootprints,
          sig \in VerifySignals, sigs \in SignatureLists :
            stamp = [lpVersion |-> h.lpVersion, plugin |-> h.plugin,
                     location |-> h.location, temporalFootprint |-> tf,
                     signals |-> sig, signatures |-> sigs]
    /\ entries = Idle /\ bundle = Idle /\ now = Idle /\ claim = Idle
    /\ result = Idle

Verify ==
    /\ pc = "verify"
    /\ result' = verifyProofModeStamp(stamp)
    /\ pc' = "done"
    /\ UNCHANGED <<entries, bundle, now, stamp, claim>>

NextVerify == Verify

SpecVerify == InitVerify /\ [][NextVerify]_vars

(***************************************************************************)
(* Inputs of the evaluator: a stamp on the meridian of the claimed point,  *)
(* MaxOffset degrees away at most, and a claim.                            *)
(***************************************************************************)
MaxOffset == 3

EvalStampLocations ==
    { Undef,
      Obj("type" :> Str("Polygon")),
      Obj(("type" :> Str("Point")) @@ ("coordinates" :> Arr(<<N(-74)>>)) ) }
    \cup { Point(N(-74), N(41 + i)) : i \in 0..MaxOffset }

EvalAccuracies == {Undef, N(0), N(10), N(MetresPerDegree), Str("n/a")}
EvalProviders == {Undef, Str("gps"), Str("network")}

EvalSignals ==
    {Undef} \cup
    { Obj(Present(("Location.Accuracy" :> acc) @@ ("Location.Provider" :> prov)
                  @@ ("HasOTS" :> ots) @@ ("SafetyNet.BasicIntegrity" :> integrity)
                  @@ ("CellInfo" :> cell))) :
        acc \in EvalAccuracies, prov \in EvalProviders, ots \in {Undef, Bool(TRUE)},
        integrity \in {Undef, Str("true")}, cell \in {Undef, Str("310:260:12345:67890")} }

EvalFootprints ==
    { Undef,
      Interval(N(1700000000), N(1700000001)),
      Interval(N(1700000000), N(1700000002)),
      Interval(N(1700000000), N(1700000000)),
      Interval(Str("unknown"), Str("unknown1")) }

ClaimTimes ==
    { Undef,
      Interval(N(1700000000), N(1700003600)),
      Interval(N(1700000001), N(1700003601)),
      Interval(N(1700036000), N(1700039600)) }

ClaimRadii == {N(0), N(100), N(MetresPerDegree), N(2 * MetresPerDegree)}
ClaimLocations == {Undef, Point(N(-74), N(41))}

InitEvaluate ==
    /\ pc = "evaluate"
    /\ \E loc \in EvalStampLocations, sig \in EvalSignals, tf \in EvalFootprints :
            stamp = [lpVersion |-> Str("0.2"), plugin |-> Str("proofmode"),
                     location |-> loc, temporalFootprint |-> tf, signals |-> sig,
                     signatures |-> Arr(<<GoodSignature>>)]
    /\ \E loc \in ClaimLocations, radius \in ClaimRadii, time \in ClaimTimes :
            claim = [location |-> loc, radius |-> radius, time |-> time]
    /\ entries = Idle /\ bundle = Idle /\ now = Idle
    /\ result = Idle

Evaluate ==
    /\ pc = "evaluate"
    /\ result' = evaluateProofModeStamp(stamp, claim)
    /\ pc' = "done"
    /\ UNCHANGED <<entries, bundle, now, stamp, claim>>

NextEvaluate == Evaluate

SpecEvaluate == InitEvaluate /\ [][NextEvaluate]_vars

(***************************************************************************)
(* Inputs of the stamp builder: a ParsedBundle whose signals are what      *)
(* extractSignals can produce (a number, or the trimmed text that did not  *)
(* parse as one), and the wall clock.                                      *)
(***************************************************************************)
BundleLatitudes == {Undef, N(41), N(91), N(-999), PosInf, Str("n/a")}
BundleLongitudes == {Undef, N(-74), N(181), Str("n/a")}
BundleLocationTimes ==
    {Undef, N(0), N(-5), N(1700000000), Big(1700000000, 0), Str("unknown")}
BundleTimestamps == {Undef, N(1700000100), Str("14 Nov 2023")}
BundleDates == {Undef, Str("2023-11-14T12:00:00Z"), Str("yesterday")}
BundleAttestations ==
    { [gst |-> Undef, devicecheck |-> Undef],
      [gst |-> Str("hdr.integrity.sig"), devicecheck |-> Undef],
      [gst |-> Undef, devicecheck |-> Str("attestation")] }
BundleSignatures == {Undef, Bytes(""), Bytes("-----BEGIN PGP SIGNATURE-----")}
\* metadata keys that are no alias of a known field pass through unchanged
BundleExtraSignals == {NoKeys, "HasOTS" :> Str("true")}

WallClock == Big(1700000500, 250)    \* Date.now(), in milliseconds

InitCreate ==
    /\ pc = "create"
    /\ \E lat \in BundleLatitudes, lon \in BundleLongitudes,
          time \in BundleLocationTimes, ts \in BundleTimestamps, date \in BundleDates,
          extra \in BundleExtraSignals, att \in BundleAttestations,
          sig \in BundleSignatures, ots \in {Undef, Bytes("ots")},
          key \in {Undef, Str("-----BEGIN PGP PUBLIC KEY BLOCK-----")},
          hash \in {Undef, Str("hex64")} :
            bundle = [metadata |->
                         [signals |-> Present(("Location.Latitude" :> lat)
                                              @@ ("Location.Longitude" :> lon)
                                              @@ ("Location.Time" :> time)
                                              @@ ("Timestamp" :> ts)
                                              @@ ("DateCreated" :> date)) @@ extra,
                          format |-> "csv"],
                      publicKey |-> key, metadataSignature |-> sig,
                      safetyNetToken |-> att.gst,
                      deviceCheckAttestation |-> att.devicecheck,
                      otsProof |-> ots, expectedHash |-> hash]
    /\ now = WallClock
    /\ entries = Idle /\ stamp = Idle /\ claim = Idle
    /\ result = Idle

Create ==
    /\ pc = "create"
    /\ result' = createStampFromBundle(bundle, Str("0.1.0"), now)
    /\ pc' = "done"
    /\ UNCHANGED <<entries, bundle, now, stamp, claim>>

NextCreate == Create

SpecCreate == InitCreate /\ [][NextCreate]_vars

(***************************************************************************)
(* The builder followed by the verifier: a stamp createStampFromBundle     *)
(* returned is given one signature with a value and a signer, and          *)
(* verifyProofModeStamp is applied to it.                                  *)
(***************************************************************************)
Signed(built) == built @@ ("signatures" :> Arr(<<GoodSignature>>))

VerifyBuilt ==
    /\ pc = "done"
    /\ ~IsThrow(result)
    /\ stamp' = Signed(result)
    /\ result' = verifyProofModeStamp(Signed(result))
    /\ pc' = "verified"
    /\ UNCHANGED <<entries, bundle, now, claim>>

NextBuildVerify == Create \/ VerifyBuilt

SpecBuildVerify == InitCreate /\ [][NextBuildVerify]_vars

(***************************************************************************)
(* Inputs of the bundle parser: archives of at most MaxEntries entries     *)
(* with distinct names, in every order, one of them possibly empty.        *)
(***************************************************************************)
EntryNames ==
    { <<"<hex64>", ".proof", ".csv">>,
      <<"<HEX64>", ".PROOF", ".CSV">>,
      <<"<HEX64>", ".proof", ".csv">>,
      <<"dir/", "meta", ".proof", ".csv">>,
      <<"<hex64>", ".proof", ".json">>,
      <<"<hex64>", ".proof", ".csv", ".asc">>,
      <<"<hex64>", ".proof", ".json", ".asc">>,
      <<"pubkey", ".asc">>,
      <<"dir/", "pubkey", ".asc">>,
      <<"<hex64>", ".gst">>,
      <<"<hex64>", ".devicecheck">>,
      <<"<hex64>", ".ots">>,
      <<"HowTo", ".txt">>,
      <<"photo", ".jpg", ".asc">>,
      <<"photo", ".JPG">>,
      <<"data", ".bin">> }

\* the sequences over S of length n without a repeated element
RECURSIVE Arrangements(_, _)
Arrangements(S, n) ==
    IF n = 0 THEN {<<>>}
    ELSE {Append(q, x) : q \in Arrangements(S, n - 1), x \in S} \ 
         {q \in [1..n -> S] : \E i, j \in 1..n : i # j /\ q[i] = q[j]}

Archives == UNION {Arrangements(EntryNames, n) : n \in 0..MaxEntries}

\* the text of the i-th entry: one vertical CSV line, or a JSON document
\* (JsonText)
EntryText(i) == "Model,u" \o ToString(i)

InitParse ==
    /\ pc = "parse"
    /\ \E names \in Archives :
        \E empty \in 0..Len(names) :
            entries = [i \in 1..Len(names) |->
                          [name |-> names[i],
                           data |-> IF i = empty THEN ""
                                    ELSE IF EndsWith(ToLowerCase(names[i]),
                                                     <<".proof", ".json">>)
                                    THEN JsonText(i)
                                    ELSE EntryText(i)]]
    /\ bundle = Idle /\ now = Idle /\ stamp = Idle /\ claim = Idle
    /\ result = Idle

Parse ==
    /\ pc = "parse"
    /\ result' = parseBundle(entries)
    /\ pc' = "done"
    /\ UNCHANGED <<entries, bundle, now, stamp, claim>>

NextParse == Parse

SpecParse == InitParse /\ [][NextParse]_vars

(***************************************************************************)
(* Inputs of the JSON decoder: the documents JSON.parse returns, objects   *)
(* of at most two members nested once, and the values that are no object.  *)
(***************************************************************************)
JsonKeys == {"Location", "Latitude", "Location.Latitude"}
JsonLeaves ==
    {N(41), Str("gps"), Str(" "), Bool(TRUE), Null, Arr(<<N(1), Null>>)}
InnerObjects ==
    {JsonObj(<<>>)} \cup {JsonObj(<<<<k, v>>>>) : k \in JsonKeys, v \in JsonLeaves}
JsonValues == JsonLeaves \cup InnerObjects
TopObjects ==
    {JsonObj(<<>>)}
    \cup {JsonObj(<<<<k, v>>>>) : k \in JsonKeys, v \in JsonValues}
    \cup {JsonObj(<<<<k[1], v1>>, <<k[2], v2>>>>) :
              k \in {q \in JsonKeys \X JsonKeys : q[1] # q[2]},
              v1 \in JsonValues, v2 \in JsonValues}
TopArrays ==
    {Arr(<<>>), Arr(<<N(1), N(2)>>), Arr(<<JsonObj(<<<<"Latitude", N(41)>>>>)>>)}
JsonDocuments == TopObjects \cup TopArrays \cup (JsonLeaves \ {Arr(<<N(1), Null>>)})

InitJson ==
    /\ pc = "decode"
    /\ entries \in JsonDocuments
    /\ bundle = Idle /\ now = Idle /\ stamp = Idle /\ claim = Idle
    /\ result = Idle

\* parseJSON on the text whose parsed document is entries
DecodeJson ==
    /\ pc = "decode"
    /\ result' = parseJSONDocument(entries)
    /\ pc' = "done"
    /\ UNCHANGED <<entries, bundle, now, stamp, claim>>

NextJson == DecodeJson

SpecJson == InitJson /\ [][NextJson]_vars

(***************************************************************************)
(* Inputs of the plugin: an archive whose metadata is a CSV text written   *)
(* from a list of fields, in the vertical or the horizontal layout, and    *)
(* the clock.  ProofModePlugin.create is called first; later the caller    *)
(* parses and builds with the two convenience methods.                     *)
(***************************************************************************)
\* decimal numerals and the numbers they denote
LatitudeNumerals ==
    { [text |-> "40.7484", value |-> Dec(0, 40, TenThousandths(7484))],
      [text |-> "-33.8688", value |-> Dec(-1, 966, TenThousandths(1312))],
      [text |-> "41", value |-> N(41)] }
LongitudeNumerals ==
    { [text |-> "-73.9857", value |-> Dec(-1, 926, TenThousandths(143))],
      [text |-> "151.2093", value |-> Dec(0, 151, TenThousandths(2093))] }
\* epoch milliseconds above 1e12, and the second each falls in
MillisecondNumerals ==
    { [text |-> "1700000000000", value |-> Big(1700000000, 0), seconds |-> N(1700000000)],
      [text |-> "1700000000999", value |-> Big(1700000000, 999), seconds |-> N(1700000000)],
      [text |-> "1000000000001", value |-> Big(1000000000, 1), seconds |-> N(1000000000)] }
\* other Location.Time cells: none, zero, epoch seconds, exactly 1e12
OtherTimeTexts == {"", "0", "1700000000", "1000000000000"}

RECURSIVE Join(_, _)
Join(parts, sep) ==
    IF parts = <<>> THEN ""
    ELSE IF Len(parts) = 1 THEN parts[1]
    ELSE parts[1] \o sep \o Join(Tail(parts), sep)

\* one "key,value" line per field
VerticalText(fields) ==
    Join([i \in 1..Len(fields) |-> fields[i][1] \o "," \o fields[i][2]], "\n")
\* a header row and a data row, each ended by `ending` ("" or ",")
HorizontalText(fields, ending) ==
    Join([i \in 1..Len(fields) |-> fields[i][1]], ",") \o ending \o "\n"
    \o Join([i \in 1..Len(fields) |-> fields[i][2]], ",") \o ending

Layouts == {"vertical", "horizontal", "horizontal,"}
CsvText(fields, layout) ==
    CASE layout = "vertical" -> VerticalText(fields)
      [] layout = "horizontal" -> HorizontalText(fields, "")
      [] layout = "horizontal," -> HorizontalText(fields, ",")

\* the fields of a capture; a field with an empty text is left out
CaptureFields(lat, lon, time) ==
    <<<<"Location.Latitude", lat>>, <<"Location.Longitude", lon>>,
      <<"Location.Accuracy", "10">>, <<"Location.Provider", "gps">>>>
    \o (IF time = "" THEN <<>> ELSE <<<<"Location.Time", time>>>>)

\* other time fields a capture may carry
OtherTimeFields ==
    { <<>>, <<<<"Timestamp", "1700000100">>>>, <<<<"DateCreated", "2023-11-14T12:00:00Z">>>> }

\* entries that may accompany the metadata
Companions ==
    { <<>>,
      <<[name |-> <<"pubkey", ".asc">>, data |-> "-----BEGIN PGP PUBLIC KEY BLOCK-----"]>>,
      <<[name |-> <<"<hex64>", ".ots">>, data |-> "ots"]>>,
      <<[name |-> <<"<hex64>", ".proof", ".csv", ".asc">>,
         data |-> "-----BEGIN PGP SIGNATURE-----"]>> }

\* how far the clock moves between the two calls, in milliseconds
ClockSteps == {0, 1, 750, 1000}

InitPlugin ==
    /\ pc = "plugin"
    /\ \E lat \in LatitudeNumerals, lon \in LongitudeNumerals,
          time \in {m.text : m \in MillisecondNumerals} \cup OtherTimeTexts,
          others \in OtherTimeFields, layout \in Layouts, more \in Companions :
            entries = <<[name |-> <<"<hex64>", ".proof", ".csv">>,
                         data |-> CsvText(CaptureFields(lat.text, lon.text, time) \o others,
                                          layout)]>>
                      \o more
    /\ now = WallClock
    /\ bundle = Idle /\ stamp = Idle /\ claim = Idle /\ result = Idle

\* ProofModePlugin.create: this.parseBundle, then this.createStampFromBundle
PluginCreate ==
    /\ pc = "plugin"
    /\ \E parsed \in {parseBundle(entries)} :
           IF IsThrow(parsed)
           THEN stamp' = parsed /\ UNCHANGED bundle
           ELSE /\ bundle' = parsed
                /\ stamp' = createStampFromBundle(parsed, Str("0.1.0"), now)
    /\ pc' = "clock"
    /\ UNCHANGED <<entries, now, claim, result>>

\* time passes between the calls
Tick ==
    /\ pc = "clock"
    /\ \E step \in ClockSteps : now' = FinAdd(now, N(step))
    /\ pc' = "direct"
    /\ UNCHANGED <<entries, bundle, stamp, claim, result>>

\* createStampFromBundle(parseBundle(zipData), plugin.version), called directly
DirectCreate ==
    /\ pc = "direct"
    /\ \E parsed \in {parseBundle(entries)} :
           result' = IF IsThrow(parsed) THEN parsed
                     ELSE createStampFromBundle(parsed, Str("0.1.0"), now)
    /\ pc' = "done"
    /\ UNCHANGED <<entries, bundle, now, stamp, claim>>

NextPlugin == PluginCreate \/ Tick \/ DirectCreate

SpecPlugin == InitPlugin /\ [][NextPlugin]_vars

(***************************************************************************)
(* Inputs of the signal normalizer: a raw map of at most MaxPairs entries, *)
(* normalized once and then once more.                                     *)
(***************************************************************************)
MaxPairs == 2

RawKeys ==
    {"Latitude", "location.longitude", "Location.Provider", "WiFi MAC",
     "DeviceID", "Sha256", "File", "Notes", "constructor"}
RawValues == {"41", "-73.9857", " gps ", "n/a", "", "Infinity"}

\* the sequences of at most n entries with distinct keys
RawMaps(n) ==
    { raw \in UNION {[1..m -> RawKeys \X {Str(v) : v \in RawValues}] : m \in 0..n} :
        \A i, j \in 1..Len(raw) : i # j => raw[i][1] # raw[j][1] }

InitNormalize ==
    /\ pc = "normalize"
    /\ entries \in RawMaps(MaxPairs)
    /\ bundle = Idle /\ now = Idle /\ stamp = Idle /\ claim = Idle /\ result = Idle

\* extractSignals(raw)
Normalize ==
    /\ pc = "normalize"
    /\ bundle' = extractSignals(entries)
    /\ pc' = "again"
    /\ UNCHANGED <<entries, now, stamp, claim, result>>

\* extractSignals applied to the map the first application returned
NormalizeAgain ==
    /\ pc = "again"
    /\ result' = extractSignals(ObjectEntries(bundle))
    /\ pc' = "done"
    /\ UNCHANGED <<entries, bundle, now, stamp, claim>>

NextNormalize == Normalize \/ NormalizeAgain

SpecNormalize == InitNormalize /\ [][NextNormalize]_vars

(***************************************************************************)
(* Inputs of the CSV decoder: more than two fields with distinct keys,     *)
(* written in the vertical layout, in the horizontal layout, and in the    *)
(* horizontal layout with trailing commas; parseCSV decodes each text.     *)
(***************************************************************************)
MaxFields == 3

CsvKeys == <<"Location.Latitude", "Location.Provider", "Model", "Key", "#note", "Notes">>
CsvValues == {"40.7484", "gps", "\"Pixel 6\"", "Value", "#1", " "}

\* the lists of n fields: keys in the order of CsvKeys, any values
FieldLists(n) ==
    { [i \in 1..n |-> <<CsvKeys[idx[i]], val[i]>>] :
        idx \in { f \in [1..n -> 1..Len(CsvKeys)] : \A i \in 1..(n - 1) : f[i] < f[i + 1] },
        val \in [1..n -> CsvValues] }

InitCsv ==
    /\ pc = "vertical"
    /\ \E n \in 3..MaxFields : entries \in FieldLists(n)
    /\ bundle = Idle /\ now = Idle /\ stamp = Idle /\ claim = Idle /\ result = Idle

\* parseCSV of the vertical text
DecodeVertical ==
    /\ pc = "vertical"
    /\ bundle' = parseCSV(Str(VerticalText(entries)))
    /\ pc' = "horizontal"
    /\ UNCHANGED <<entries, now, stamp, claim, result>>

\* parseCSV of the horizontal text
DecodeHorizontal ==
    /\ pc = "horizontal"
    /\ stamp' = parseCSV(Str(HorizontalText(entries, "")))
    /\ pc' = "trailing"
    /\ UNCHANGED <<entries, bundle, now, claim, result>>

\* parseCSV of the horizontal text whose rows end with a comma
DecodeTrailing ==
    /\ pc = "trailing"
    /\ result' = parseCSV(Str(HorizontalText(entries, ",")))
    /\ pc' = "done"
    /\ UNCHANGED <<entries, bundle, now, stamp, claim>>

NextCsv == DecodeVertical \/ DecodeHorizontal \/ DecodeTrailing

SpecCsv == InitCsv /\ [][NextCsv]_vars

(***************************************************************************)
(* Properties of the verifier                                              *)
(***************************************************************************)
Signal(s, key) == IF s.signals = Undef THEN Undef ELSE Get(s.signals.f, key)
InRange(v, lo, hi) == v.t = "number" /\ ~FinLt(v, N(lo)) /\ ~FinLt(N(hi), v)
\* |a - b| <= d on finite numbers
Within(a, b, d) == ~FinLt(N(d), FinSub(a, b)) /\ ~FinLt(N(d), FinSub(b, a))
\* Location.Time in seconds: milliseconds above 1e12 are divided by 1000
Seconds(time) == IF FinLt(MsThreshold, time) THEN N(time.k) ELSE time

WellFormedSignature(sig) ==
    /\ sig.value.t = "string" /\ sig.value.s # ""
    /\ sig.signer # Undef
    /\ sig.signer.value.t = "string" /\ sig.signer.value.s # ""

\* what C1 asks of a stamp besides its footprint and signatures
C1_Rest(s) ==
    /\ s.lpVersion = Str("0.2") /\ s.plugin = Str("proofmode")
    /\ s.location # Undef
    /\ s.signals # Undef
    /\ InRange(Signal(s, "Location.Latitude"), -90, 90)
    /\ InRange(Signal(s, "Location.Longitude"), -180, 180)
    /\ s.temporalFootprint # Undef
    /\ s.temporalFootprint.start.t = "number" /\ s.temporalFootprint.end.t = "number"
    /\ Signal(s, "Location.Time").t = "number"
    /\ Within(Seconds(Signal(s, "Location.Time")), s.temporalFootprint.start, 3600)

AllFlags(r) == r.valid /\ r.structureValid /\ r.signaturesValid /\ r.signalsConsistent

\* C1 as stated: a stamp with the structural fields, a footprint that has a start
\* and an end, at least one well-formed signature, in-range coordinates and a
\* Location.Time within 3600 s of the footprint start verifies as valid.
C1_AsStated ==
    (/\ pc = "done"
     /\ C1_Rest(stamp)
     /\ stamp.signatures # Undef
     /\ \E i \in 1..Len(stamp.signatures.items) :
            WellFormedSignature(stamp.signatures.items[i]))
    => AllFlags(result)

\* C1 amended: the same, for a footprint whose start and end are both nonzero
\* (truthy) and a signature list that is non-empty and well formed throughout.
C1_ValidWhenWellFormed ==
    (/\ pc = "done"
     /\ C1_Rest(stamp)
     /\ ~IsZero(stamp.temporalFootprint.start) /\ ~IsZero(stamp.temporalFootprint.end)
     /\ stamp.signatures # Undef
     /\ Len(stamp.signatures.items) >= 1
     /\ \A i \in 1..Len(stamp.signatures.items) :
            WellFormedSignature(stamp.signatures.items[i]))
    => AllFlags(result)

\* a millisecond Location.Time exactly 3600 s away from the footprint start, accepted
C1_Witness ==
    /\ pc = "done"
    /\ C1_Rest(stamp)
    /\ FinLt(MsThreshold, Signal(stamp, "Location.Time"))
    /\ FinSub(Seconds(Signal(stamp, "Location.Time")), stamp.temporalFootprint.start) = N(3600)
    /\ stamp.signatures # Undef
    /\ Len(stamp.signatures.items) = 2
    /\ AllFlags(result)

\* C6: a Location.Latitude outside [-90,90] or a Location.Longitude outside
\* [-180,180] makes signalsConsistent (and valid) false, and details records each
\* offending field under its own key with the offending value.
OutOfRange(v, lo, hi) == v.t = "number" /\ (FinLt(v, N(lo)) \/ FinLt(N(hi), v))

C6_OutOfRangeFlagged ==
    pc = "done" =>
        LET lat == Signal(stamp, "Location.Latitude")
            lon == Signal(stamp, "Location.Longitude")
        IN  /\ (OutOfRange(lat, -90, 90) \/ OutOfRange(lon, -180, 180))
                => (~result.signalsConsistent /\ ~result.valid)
            /\ OutOfRange(lat, -90, 90)
                => Get(result.details, "invalidLatitude") = lat
            /\ OutOfRange(lon, -180, 180)
                => Get(result.details, "invalidLongitude") = lon

\* both coordinates out of range, each recorded
C6_Witness ==
    /\ pc = "done"
    /\ OutOfRange(Signal(stamp, "Location.Latitude"), -90, 90)
    /\ OutOfRange(Signal(stamp, "Location.Longitude"), -180, 180)
    /\ {"invalidLatitude", "invalidLongitude"} \subseteq DOMAIN result.details
    /\ ~result.signalsConsistent

\* C7: signaturesValid is true exactly when the signature list has at least one
\* entry and every entry has a non-empty string value and a non-empty signer
\* identifier; an empty list gives signaturesValid = false and valid = false.
C7_SignaturesValidIff ==
    pc = "done" =>
        /\ result.signaturesValid <=>
              /\ stamp.signatures # Undef
              /\ Len(stamp.signatures.items) >= 1
              /\ \A i \in 1..Len(stamp.signatures.items) :
                     WellFormedSignature(stamp.signatures.items[i])
        /\ (stamp.signatures # Undef /\ Len(stamp.signatures.items) = 0)
              => (~result.signaturesValid /\ ~result.valid)

\* an otherwise valid stamp with an empty signature list, rejected
C7_Witness ==
    /\ pc = "done"
    /\ stamp.signatures = Arr(<<>>)
    /\ result.structureValid /\ result.signalsConsistent
    /\ ~result.signaturesValid /\ ~result.valid
    /\ "noSignatures" \in DOMAIN result.details


\* the stamp carries a numeric Location.Time and a footprint with a numeric start
CarriesTimes(s) ==
    /\ s.signals # Undef /\ s.temporalFootprint # Undef
    /\ Signal(s, "Location.Time").t = "number"
    /\ s.temporalFootprint.start.t = "number"
\* |locationTimeSeconds - temporalFootprint.start|
Drift(s) ==
    LET d == FinSub(Seconds(Signal(s, "Location.Time")), s.temporalFootprint.start)
    IN  IF FinLt(d, N(0)) THEN FinNeg(d) ELSE d

\* C19: for every stamp with a Location.Time (0 included) and a footprint, a
\* drift |locationTimeSeconds - temporalFootprint.start| above 3600 makes
\* signalsConsistent false with details.timestampDrift set to the drift, and a
\* drift of 3600 or less is not flagged.
C19_DriftFlaggedAbove3600 ==
    (pc = "done" /\ CarriesTimes(stamp)) =>
        IF FinLt(N(3600), Drift(stamp))
        THEN /\ ~result.signalsConsistent
             /\ "timestampDrift" \in DOMAIN result.details
             /\ result.details["timestampDrift"] = Drift(stamp)
        ELSE "timestampDrift" \notin DOMAIN result.details

StructureFailures ==
    {"lpVersionError", "pluginMismatch", "missingLocation", "missingTemporalFootprint",
     "missingSignals"}
SignatureFailures == {"noSignatures", "emptySignature", "missingSigner"}
SignalFailures == {"invalidLatitude", "invalidLongitude", "timestampDrift"}
\* what of a stamp each failure entry of details reports
Reported(s) ==
    LET sigs == IF s.signatures = Undef THEN <<>> ELSE s.signatures.items
        lat == Signal(s, "Location.Latitude")
        lon == Signal(s, "Location.Longitude")
    IN  {k \in StructureFailures \cup SignatureFailures \cup SignalFailures :
            CASE k = "lpVersionError" -> s.lpVersion # Str("0.2")
              [] k = "pluginMismatch" -> s.plugin # Str("proofmode")
              [] k = "missingLocation" -> s.location = Undef
              [] k = "missingTemporalFootprint" ->
                    \/ s.temporalFootprint = Undef
                    \/ IsZero(s.temporalFootprint.start) \/ IsZero(s.temporalFootprint.end)
              [] k = "missingSignals" -> s.signals = Undef
              [] k = "noSignatures" -> sigs = <<>>
              [] k = "emptySignature" ->
                    \E i \in 1..Len(sigs) : sigs[i].value.t # "string" \/ sigs[i].value.s = ""
              [] k = "missingSigner" ->
                    \E i \in 1..Len(sigs) :
                        sigs[i].signer = Undef \/ sigs[i].signer.value.s = ""
              [] k = "invalidLatitude" -> lat # Undef /\ ~InRange(lat, -90, 90)
              [] k = "invalidLongitude" -> lon # Undef /\ ~InRange(lon, -180, 180)
              [] k = "timestampDrift" ->
                    /\ CarriesTimes(s) /\ ~IsZero(Signal(s, "Location.Time"))
                    /\ FinLt(N(3600), Drift(s)) }

\* C21: the three flags are computed independently, without short-circuit:
\* every failure entry of details is present exactly when the stamp has that
\* defect, whatever the other checks found; each flag is false exactly when
\* one of its own entries is present; valid is the conjunction of the three.
C21_FlagsIndependent ==
    pc = "done" =>
        LET failures ==
                DOMAIN result.details
                \cap (StructureFailures \cup SignatureFailures \cup SignalFailures)
        IN  /\ failures = Reported(stamp)
            /\ result.structureValid <=> failures \cap StructureFailures = {}
            /\ result.signaturesValid <=> failures \cap SignatureFailures = {}
            /\ result.signalsConsistent <=> failures \cap SignalFailures = {}
            /\ result.valid <=>
                  (result.structureValid /\ result.signaturesValid
                   /\ result.signalsConsistent)

\* a stamp that fails all three checks, each failure recorded
C21_Witness ==
    /\ pc = "done"
    /\ ~result.structureValid /\ ~result.signaturesValid /\ ~result.signalsConsistent
    /\ ~result.valid
    /\ {"lpVersionError", "noSignatures", "invalidLatitude", "timestampDrift"}
          \subseteq DOMAIN result.details

AdvisoryKeys == {"Location.Provider", "Location.Accuracy", "SafetyNet.JWT"}
AdvisoryDetails ==
    {"suspiciousGPSAccuracy", "suspiciousNetworkAccuracy", "safetyNet", "safetyNetParseError"}
MalformedTokens == {"not-a-jwt", "hdr.integrity", "hdr.garbage.sig", "hdr.null.sig"}
\* values the advisory signals may be changed to
AdvisoryVariants ==
    { NoKeys,
      ("Location.Provider" :> Str("gps")) @@ ("Location.Accuracy" :> N(200))
          @@ ("SafetyNet.JWT" :> Str("hdr.garbage.sig")),
      ("Location.Provider" :> Str("network")) @@ ("Location.Accuracy" :> Str("n/a"))
          @@ ("SafetyNet.JWT" :> Str("hdr.null.sig")),
      ("Location.Provider" :> Str("network")) @@ ("Location.Accuracy" :> N(3))
          @@ ("SafetyNet.JWT" :> Str("hdr.nointegrity.sig")) }
\* the stamp with its advisory signals replaced
WithAdvisories(s, adv) ==
    [s EXCEPT !.signals =
        Obj(adv @@ [k \in DOMAIN s.signals.f \ AdvisoryKeys |-> s.signals.f[k]])]
Except(details, keys) == [k \in DOMAIN details \ keys |-> details[k]]

\* C20: stamps that differ only in Location.Provider, Location.Accuracy or the
\* content of SafetyNet.JWT get the same structureValid, signaturesValid,
\* signalsConsistent and valid; only the details suspiciousGPSAccuracy,
\* suspiciousNetworkAccuracy, safetyNet and safetyNetParseError may differ, and
\* parseSafetyNetJWT returns null on a malformed token.
C20_AdvisoriesChangeNoFlag ==
    (pc = "done" /\ stamp.signals # Undef) =>
        /\ \A adv \in AdvisoryVariants :
              LET other == verifyProofModeStamp(WithAdvisories(stamp, adv))
              IN  /\ other.structureValid = result.structureValid
                  /\ other.signaturesValid = result.signaturesValid
                  /\ other.signalsConsistent = result.signalsConsistent
                  /\ other.valid = result.valid
                  /\ Except(other.details, AdvisoryDetails)
                        = Except(result.details, AdvisoryDetails)
        /\ \A jwt \in MalformedTokens : parseSafetyNetJWT(Str(jwt)) = Null
        /\ (Signal(stamp, "SafetyNet.JWT") # Undef
             /\ Signal(stamp, "SafetyNet.JWT").s \in MalformedTokens)
              => result.details["safetyNetParseError"] = Bool(TRUE)

\* a well-formed stamp with an undecodable token: recorded, every flag true
C20_Witness ==
    /\ pc = "done" /\ stamp.signals # Undef
    /\ Signal(stamp, "SafetyNet.JWT") = Str("not-a-jwt")
    /\ result.details["safetyNetParseError"] = Bool(TRUE)
    /\ AllFlags(result)
    /\ \E adv \in AdvisoryVariants :
          "suspiciousGPSAccuracy" \in DOMAIN verifyProofModeStamp(WithAdvisories(stamp, adv)).details

(***************************************************************************)
(* Properties of the evaluator                                             *)
(***************************************************************************)
\* x > num/den, x >= num/den, x <= num/den for a returned score field
Above(x, num, den) ==
    \/ x.t = "ratio" /\ x.num * den > num * x.den
    \/ x.t = "Infinity" /\ ~x.neg
AtLeast(x, num, den) == x.t = "ratio" /\ x.num * den >= num * x.den
AtMost(x, num, den) == x.t = "ratio" /\ x.num * den <= num * x.den

\* the two intervals have numeric bounds and share no instant
Disjoint(a, b) ==
    /\ a # Undef /\ b # Undef
    /\ \A v \in {a.start, a.end, b.start, b.end} : v.t = "number"
    /\ (~FinLt(b.start, a.end) \/ ~FinLt(a.start, b.end))

\* the accuracy signal is absent or a finite number
NumericAccuracy(s) ==
    /\ s.signals # Undef
    /\ Signal(s, "Location.Accuracy") = Undef \/ Signal(s, "Location.Accuracy").t = "number"

\* C2: evaluateProofModeStamp never ends in an exception: whatever is absent
\* from the stamp or the claim, it returns a complete result record.
C2_NeverThrows ==
    pc = "done" =>
        /\ ~IsThrow(result)
        /\ {"supportsClaim", "score", "spatial", "temporal", "details"} \subseteq DOMAIN result

\* C3: in every result returned, supportsClaim is true exactly when score > 0.3
\* and spatial > 0.1 and temporal > 0; intervals that do not overlap give
\* temporal = 0 and supportsClaim = false whatever the score.
C3_SupportsClaimIffGates ==
    (pc = "done" /\ ~IsThrow(result)) =>
        /\ result.supportsClaim <=>
              /\ Above(result.score, 3, 10)
              /\ Above(result.spatial, 1, 10)
              /\ Above(result.temporal, 0, 1)
        /\ Disjoint(stamp.temporalFootprint, claim.time)
              => (result.temporal = Ratio(0, 1) /\ ~result.supportsClaim)

\* a stamp at the claimed point whose instant is outside the claimed interval:
\* the score and the spatial value pass their gates, the claim is not supported
C3_Witness ==
    /\ pc = "done" /\ ~IsThrow(result)
    /\ Disjoint(stamp.temporalFootprint, claim.time)
    /\ Above(result.score, 3, 10)
    /\ Above(result.spatial, 1, 10)
    /\ result.temporal = Ratio(0, 1)
    /\ ~result.supportsClaim

\* C4: for every claim radius, every numeric or absent accuracy and every
\* distance (radius + accuracy = 0 at distance 0 included), the spatial value
\* returned is a number with 0 <= spatial <= 0.7.
C4_SpatialInRange ==
    (pc = "done" /\ ~IsThrow(result) /\ NumericAccuracy(stamp)) =>
        /\ AtLeast(result.spatial, 0, 1)
        /\ AtMost(result.spatial, 7, 10)

\* C9: when both geometries read as points, the score returned is
\* spatial * 0.6 + temporal * 0.4 + adjustment clamped into [0,1], hence
\* 0 <= score <= 1 (effective radius 0 included).
C9_ScoreClamped ==
    (/\ pc = "done" /\ ~IsThrow(result) /\ NumericAccuracy(stamp)
     /\ extractCoords(stamp.location) # Null /\ extractCoords(claim.location) # Null) =>
        /\ AtLeast(result.score, 0, 1)
        /\ AtMost(result.score, 1, 1)
        /\ LET raw == RatAdd(RatAdd(RatMul(result.spatial, Ratio(6, 10)),
                                    RatMul(result.temporal, Ratio(4, 10))),
                             result.details["signalBonus"])
           IN  result.score = IF RatLt(raw, Ratio(0, 1)) THEN Ratio(0, 1)
                              ELSE IF RatLt(Ratio(1, 1), raw) THEN Ratio(1, 1)
                              ELSE raw

\* an interval of two epoch-second numbers
NumericInterval(a) ==
    a # Undef /\ a.start.t = "number" /\ a.end.t = "number"
EpochSeconds(v) == 1000 * v.k + v.r
Larger(m, n) == IF m < n THEN n ELSE m
Smaller(m, n) == IF m < n THEN m ELSE n
\* seconds the two intervals share (not positive when they share none)
OverlapSeconds(a, b) ==
    Smaller(EpochSeconds(a.end), EpochSeconds(b.end))
    - Larger(EpochSeconds(a.start), EpochSeconds(b.start))
ShorterSeconds(a, b) ==
    Smaller(EpochSeconds(a.end) - EpochSeconds(a.start),
            EpochSeconds(b.end) - EpochSeconds(b.start))
\* the evaluator read both geometries and scored the stamp
Scored == pc = "done" /\ ~IsThrow(result) /\ "error" \notin DOMAIN result.details

\* C16: whenever the evaluator scores a stamp, temporal is the overlap of the
\* two intervals divided by the duration of the shorter one when they overlap
\* with positive length, and 0 when they do not overlap or an interval has no
\* positive duration; so 0 <= temporal <= 1, and a claim window that starts 10
\* hours after a one-second footprint gives temporal = 0.
C16_TemporalIsOverlapRatio ==
    Scored =>
        LET a == stamp.temporalFootprint
            b == claim.time
        IN  /\ AtLeast(result.temporal, 0, 1) /\ AtMost(result.temporal, 1, 1)
            /\ (NumericInterval(a) /\ NumericInterval(b)) =>
                  result.temporal =
                      IF OverlapSeconds(a, b) > 0 /\ ShorterSeconds(a, b) > 0
                      THEN Ratio(OverlapSeconds(a, b), ShorterSeconds(a, b))
                      ELSE Ratio(0, 1)
            /\ (a = Interval(N(1700000000), N(1700000001))
                 /\ b = Interval(N(1700036000), N(1700039600)))
                  => result.temporal = Ratio(0, 1)

\* a two-second footprint of which the claim window covers the second half
C16_Witness ==
    /\ Scored
    /\ stamp.temporalFootprint = Interval(N(1700000000), N(1700000002))
    /\ claim.time = Interval(N(1700000001), N(1700003601))
    /\ result.temporal = Ratio(1, 2)

\* metres between the two points, as the result reports them
DistanceMetres == result.details["distanceMeters"].num
\* claim radius + accuracy signal (0 if absent), in metres
RadiusMetres ==
    EpochSeconds(claim.radius)
    + (IF Signal(stamp, "Location.Accuracy") = Undef THEN 0
       ELSE EpochSeconds(Signal(stamp, "Location.Accuracy")))
\* 1 - d/R inside the radius, max(0, 1 - d/(3R)) beyond it
ExpectedUncapped(d, R) ==
    IF d <= R THEN Ratio(R - d, R)
    ELSE IF d >= 3 * R THEN Ratio(0, 1)
    ELSE Ratio(3 * R - d, 3 * R)
\* the evaluator scored the stamp with a positive numeric effective radius
ScoredWithRadius == Scored /\ NumericAccuracy(stamp) /\ RadiusMetres > 0

\* C22: for every distance d >= 0 and effective radius R > 0 the spatial score
\* is min(0.7, 1 - d/R) when d <= R and min(0.7, max(0, 1 - d/(3R))) when
\* d > R; d = 0 gives 0.7, and every d >= 3R gives spatial = 0 and
\* supportsClaim = false.
C22_SpatialFormula ==
    ScoredWithRadius =>
        LET expected == ExpectedUncapped(DistanceMetres, RadiusMetres)
        IN  /\ result.spatial = IF RatLt(Ratio(7, 10), expected) THEN Ratio(7, 10)
                                ELSE expected
            /\ DistanceMetres = 0 => result.spatial = Ratio(7, 10)
            /\ DistanceMetres >= 3 * RadiusMetres
                  => (result.spatial = Ratio(0, 1) /\ ~result.supportsClaim)

\* two degrees away with a radius of one degree: on the decay, 1 - 2/3
C22_Witness ==
    /\ ScoredWithRadius
    /\ DistanceMetres = 2 * MetresPerDegree /\ RadiusMetres = MetresPerDegree
    /\ result.spatial = Ratio(1, 3)

(***************************************************************************)
(* Properties of the stamp builder                                         *)
(***************************************************************************)
\* C5: createStampFromBundle returns a Stamp exactly when Location.Latitude
\* and Location.Longitude are both finite numbers within [-90,90] and
\* [-180,180]; in every other case it fails.
C5_StampOnlyInRange ==
    pc = "done" =>
        (~IsThrow(result) <=>
            /\ InRange(Get(bundle.metadata.signals, "Location.Latitude"), -90, 90)
            /\ InRange(Get(bundle.metadata.signals, "Location.Longitude"), -180, 180))

\* C8: every Stamp returned has a numeric temporalFootprint with
\* end = start + 1 and start <= end, whatever the Location.Time, Timestamp and
\* DateCreated signals are.
C8_NumericFootprint ==
    (pc = "done" /\ ~IsThrow(result)) =>
        /\ result.temporalFootprint.start.t = "number"
        /\ result.temporalFootprint.end.t = "number"
        /\ result.temporalFootprint.end = FinAdd(result.temporalFootprint.start, N(1))
        /\ ~FinLt(result.temporalFootprint.end, result.temporalFootprint.start)

\* Location.Time as the footprint start: milliseconds when the magnitude
\* exceeds 1e12, else already seconds
AsSeconds(time) ==
    IF time.t = "number" /\ FinLt(MsThreshold, MathAbs(time)) THEN FloorDiv1000(time)
    ELSE time

\* C18: temporalFootprint.start follows a strict precedence: a Location.Time
\* that is present is used, whatever its value (0 and negative values
\* included), in seconds; Timestamp only if Location.Time is absent;
\* DateCreated only if both are absent; the wall clock only if all three are
\* absent.
C18_StartTimePrecedence ==
    (pc = "done" /\ ~IsThrow(result)) =>
        LET locationTime == Get(bundle.metadata.signals, "Location.Time")
            timestamp == Get(bundle.metadata.signals, "Timestamp")
            dateCreated == Get(bundle.metadata.signals, "DateCreated")
        IN  result.temporalFootprint.start =
                IF locationTime # Undef THEN AsSeconds(locationTime)
                ELSE IF timestamp # Undef THEN timestamp
                ELSE IF dateCreated # Undef THEN FloorDiv1000(DateGetTime(dateCreated.s))
                ELSE FloorDiv1000(now)

(***************************************************************************)
(* Properties of the bundle parser                                         *)
(***************************************************************************)
\* the entries whose name ends, in any letter case, with the suffix
EntriesEnding(zip, suffix) ==
    {i \in 1..Len(zip) : EndsWith(ToLowerCase(zip[i].name), suffix)}

MissingMetadataError ==
    Threw("ProofMode bundle missing metadata (no .proof.csv or .proof.json found)")

\* C10: one metadata source is selected, whatever the order of the entries:
\* with a .proof.csv entry (in any letter case) the metadata is decoded from a
\* CSV entry, a .proof.json entry present or not; without one it is decoded
\* from a .proof.json entry (the decoder's own error propagating when that
\* text is no JSON); the missing-metadata error is raised exactly when the
\* archive has neither.
C10_OneMetadataSource ==
    pc = "done" =>
        LET csv == EntriesEnding(entries, <<".proof", ".csv">>)
            json == EntriesEnding(entries, <<".proof", ".json">>)
        IN  /\ csv # {} =>
                 /\ ~IsThrow(result)
                 /\ result.metadata.format = "csv"
                 /\ \E i \in csv : result.metadata = parseCSV(Str(entries[i].data))
            /\ (csv = {} /\ json # {}) =>
                 \E i \in json :
                     IF entries[i].data = ""
                     THEN result = Threw("SyntaxError")
                     ELSE /\ ~IsThrow(result)
                          /\ result.metadata.format = "json"
                          /\ result.metadata = parseJSON(Str(entries[i].data))
                          /\ result.metadata.signals = ("Model" :> Str("u" \o ToString(i)))
            /\ result = MissingMetadataError <=> (csv = {} /\ json = {})

\* an archive of three entries where a .proof.json entry is visited after an
\* upper-case .PROOF.CSV entry, and the metadata is the CSV's
C10_Witness ==
    /\ pc = "done"
    /\ Len(entries) = MaxEntries
    /\ \E i, j \in 1..Len(entries) :
        /\ i < j
        /\ entries[i].name = <<"<HEX64>", ".PROOF", ".CSV">>
        /\ j \in EntriesEnding(entries, <<".proof", ".json">>)
        /\ ~IsThrow(result)
        /\ result.metadata.format = "csv"
        /\ result.metadata.signals = ("Model" :> Str("u" \o ToString(i)))

\* C11: with a .proof.csv.asc entry in the archive the metadataSignature of the
\* ParsedBundle is the bytes of a CSV signature entry, in whichever order the
\* entries are visited; it is the bytes of a .proof.json.asc entry only when
\* the archive has no .proof.csv.asc entry.
C11_CsvSignaturePreferred ==
    (pc = "done" /\ ~IsThrow(result)) =>
        LET csvSig == EntriesEnding(entries, <<".proof", ".csv", ".asc">>)
            jsonSig == EntriesEnding(entries, <<".proof", ".json", ".asc">>)
        IN  /\ csvSig # {} =>
                 \E i \in csvSig : result.metadataSignature = Bytes(entries[i].data)
            /\ (\E j \in jsonSig : result.metadataSignature = Bytes(entries[j].data))
                 => csvSig = {}
            /\ (csvSig = {} /\ jsonSig # {}) =>
                 \E j \in jsonSig : result.metadataSignature = Bytes(entries[j].data)

\* the JSON signature is visited after the CSV signature and is not taken
C11_Witness ==
    /\ pc = "done" /\ ~IsThrow(result)
    /\ \E i \in EntriesEnding(entries, <<".proof", ".csv", ".asc">>) :
       \E j \in EntriesEnding(entries, <<".proof", ".json", ".asc">>) :
            /\ i < j
            /\ entries[i].data # entries[j].data
            /\ result.metadataSignature = Bytes(entries[i].data)

\* the rules of the classifier in their order, on the lower-cased name
RuleMatches(rule, name) ==
    LET lower == ToLowerCase(name)
        last == lower[Len(lower)]
        isPubkey == Len(lower) >= 2 /\ SubSeq(lower, Len(lower) - 1, Len(lower)) = <<"pubkey", ".asc">>
    IN  CASE rule = 1 -> EndsWith(lower, <<".proof", ".csv">>)
          [] rule = 2 -> EndsWith(lower, <<".proof", ".json">>)
          [] rule = 3 -> isPubkey
          [] rule = 4 -> EndsWith(lower, <<".proof", ".csv", ".asc">>)
          [] rule = 5 -> EndsWith(lower, <<".proof", ".json", ".asc">>)
          [] rule = 6 -> last = ".gst"
          [] rule = 7 -> last = ".devicecheck"
          [] rule = 8 -> last = ".ots"
          [] rule = 9 -> last = ".txt"
          [] rule = 10 -> last = ".asc" /\ ~isPubkey /\ \A i \in 1..Len(lower) : lower[i] # ".proof"
          [] rule = 11 -> last \in MEDIA_EXTENSIONS
          [] OTHER -> TRUE
\* the first rule an entry matches; 12 is "unclassified"
RECURSIVE FirstRuleFrom(_, _)
FirstRuleFrom(rule, name) ==
    IF RuleMatches(rule, name) THEN rule ELSE FirstRuleFrom(rule + 1, name)
FirstRule(name) == FirstRuleFrom(1, name)
\* the rule each entry of the archive takes
RECURSIVE RulesTaken(_)
RulesTaken(zip) ==
    IF zip = <<>> THEN <<>>
    ELSE <<FirstRule(Head(zip).name)>> \o RulesTaken(Tail(zip))
\* the last entry of the archive that takes the rule, if there is one
LastTaking(zip, rules, rule) ==
    LET hits == {i \in 1..Len(zip) : rules[i] = rule}
    IN  IF hits = {} THEN Undef ELSE zip[CHOOSE i \in hits : \A j \in hits : j <= i]
TextOf(entry) == IF entry = Undef THEN Undef ELSE Str(entry.data)
BytesOf(entry) == IF entry = Undef THEN Undef ELSE Bytes(entry.data)

\* C23: every entry takes the role of the first rule its lower-cased name
\* matches, in the order csv, json, pubkey.asc, .proof.csv.asc,
\* .proof.json.asc, .gst, .devicecheck, .ots, .txt, media .asc, media
\* extension, and no other: each slot of the bundle holds the last entry that
\* takes its rule; a .txt entry is never the media file; the media file has a
\* known media extension; every entry is in the files list.
C23_FirstMatchingRule ==
    (pc = "done" /\ ~IsThrow(result)) =>
        LET rules == RulesTaken(entries)
            Taking(rule) == LastTaking(entries, rules, rule)
        IN
        /\ result.publicKey = TextOf(Taking(3))
        /\ result.safetyNetToken = TextOf(Taking(6))
        /\ result.deviceCheckAttestation = TextOf(Taking(7))
        /\ result.otsProof = BytesOf(Taking(8))
        /\ result.mediaSignature = BytesOf(Taking(10))
        /\ result.mediaFile = BytesOf(Taking(11))
        /\ result.mediaFileName =
              IF Taking(11) = Undef THEN Undef
              ELSE Taking(11).name
        /\ Taking(4) = Undef =>
              result.metadataSignature = BytesOf(Taking(5))
        /\ Taking(4) # Undef =>
              result.metadataSignature = BytesOf(Taking(4))
        /\ result.mediaFileName # Undef =>
              LowerToken(result.mediaFileName[Len(result.mediaFileName)]) \in MEDIA_EXTENSIONS
        /\ result.files = entries

\* a .txt file after the photo: the photo stays the media file, all are listed
C23_Witness ==
    /\ pc = "done" /\ ~IsThrow(result)
    /\ Len(entries) = 3
    /\ entries[2].name = <<"photo", ".JPG">>
    /\ entries[3].name = <<"HowTo", ".txt">>
    /\ result.mediaFileName = <<"photo", ".JPG">>
    /\ result.files = entries

\* the metadata-csv entry: the last entry whose name ends in .proof.csv
MetadataCsvEntry(zip) ==
    LET csv == EntriesEnding(zip, <<".proof", ".csv">>)
    IN  zip[CHOOSE i \in csv : \A j \in csv : j <= i]

\* the name matches ^[a-f0-9]{64}\.proof\.csv$ without regard to case
MatchesHashName(name) ==
    /\ Len(name) = 3
    /\ name[1] \in {"<hex64>", "<HEX64>"}
    /\ LowerToken(name[2]) = ".proof" /\ LowerToken(name[3]) = ".csv"

\* C15: expectedHash is the 64 hex characters of the metadata-csv entry's name
\* exactly when that name matches ^[a-f0-9]{64}\.proof\.csv$ in any case, and
\* is undefined for every other name and when the metadata came from JSON.
C15_ExpectedHashIffNameMatches ==
    (pc = "done" /\ ~IsThrow(result)) =>
        IF EntriesEnding(entries, <<".proof", ".csv">>) = {}
        THEN result.expectedHash = Undef
        ELSE LET name == MetadataCsvEntry(entries).name
             IN  IF MatchesHashName(name) THEN result.expectedHash = Str(name[1])
                 ELSE result.expectedHash = Undef

(***************************************************************************)
(* Properties of the plugin                                                *)
(***************************************************************************)
\* C12: a bundle whose metadata carries the numerals lat, lon and a
\* Location.Time t in milliseconds (t > 1e12), parsed and then built, gives a
\* Stamp with location.coordinates = [lon, lat] and
\* temporalFootprint = {start: floor(t/1000), end: floor(t/1000) + 1}.
C12_RoundTrip ==
    stamp # Idle =>
        \A lat \in LatitudeNumerals, lon \in LongitudeNumerals,
           time \in MillisecondNumerals, layout \in Layouts :
            entries[1].data = CsvText(CaptureFields(lat.text, lon.text, time.text), layout)
            => /\ ~IsThrow(stamp)
               /\ stamp.location.f["coordinates"] = Arr(<<lon.value, lat.value>>)
               /\ stamp.temporalFootprint.start = time.seconds
               /\ stamp.temporalFootprint.end = FinAdd(time.seconds, N(1))

\* the example: 40.7484, -73.9857, 1700000000000 in the horizontal layout with
\* trailing commas
C12_Witness ==
    /\ stamp # Idle /\ ~IsThrow(stamp)
    /\ entries[1].data =
          "Location.Latitude,Location.Longitude,Location.Accuracy,Location.Provider,Location.Time,\n"
          \o "40.7484,-73.9857,10,gps,1700000000000,"
    /\ stamp.location.f["coordinates"] = Arr(<<Dec(-1, 926, TenThousandths(143)), Dec(0, 40, TenThousandths(7484))>>)
    /\ stamp.temporalFootprint = Interval(N(1700000000), N(1700000001))

\* the metadata carries a time signal the builder uses
HasTimeSignal(b) ==
    \E key \in {"Location.Time", "Timestamp", "DateCreated"} :
        Truthy(Get(b.metadata.signals, key))
\* the clock shows the same second as at the first call
SameSecond == FloorDiv1000(now) = FloorDiv1000(WallClock)

\* C17 as stated: two invocations of the builder on the same bundle return
\* equal stamps for every bundle on which it succeeds, bundles without
\* Location.Time, Timestamp and DateCreated included, so plugin.create always
\* equals createStampFromBundle(parseBundle(zipData), version).
C17_AsStated ==
    (pc = "done" /\ ~IsThrow(stamp)) => result = stamp

\* C17: two invocations of the builder on the same bundle return equal stamps
\* whenever the bundle carries a nonzero Location.Time, a nonzero Timestamp or
\* a non-empty DateCreated, or the two invocations fall in the same wall-clock
\* second; under that condition plugin.create equals
\* createStampFromBundle(parseBundle(zipData), version).
C17_SameStampWhenTimed ==
    (pc = "done" /\ ~IsThrow(stamp) /\ (HasTimeSignal(bundle) \/ SameSecond))
        => result = stamp

\* a bundle with a Timestamp only, built again one second later
C17_Witness ==
    /\ pc = "done" /\ ~IsThrow(stamp) /\ ~SameSecond
    /\ Get(bundle.metadata.signals, "Location.Time") = Undef
    /\ Get(bundle.metadata.signals, "Timestamp") = N(1700000100)
    /\ stamp.temporalFootprint = Interval(N(1700000100), N(1700000101))
    /\ result = stamp

(***************************************************************************)
(* Properties of the signal normalizer                                     *)
(***************************************************************************)
\* C13: the normalizer is idempotent: applied to its own output it succeeds
\* and returns a map with the same keys and the same values.
C13_Idempotent ==
    pc = "done" => (~IsThrow(result) /\ result = bundle)

(***************************************************************************)
(* Properties of the CSV decoder                                           *)
(***************************************************************************)
\* the three decodings returned the same signals
SameSignals == bundle.signals = stamp.signals /\ stamp.signals = result.signals

Quoted(value) == StartsWith(value, "\"") /\ EndsWithText(value, "\"")
HeaderPair(field) == LowerCase(Trim(field[1])) = "key" /\ LowerCase(Trim(field[2])) = "value"
\* fields the two layouts write without a comment mark, a quoted value, a
\* key/value header pair or a blank value
PlainFields(fields) ==
    /\ \A i \in 1..Len(fields) :
          /\ ~StartsWith(Trim(fields[i][1]), "#")
          /\ ~Quoted(Trim(fields[i][2]))
          /\ ~HeaderPair(fields[i])
          /\ Trim(fields[i][2]) # ""
    /\ ~StartsWith(Trim(fields[1][2]), "#")

\* C14 as stated: for every set of more than two distinct keys with non-empty,
\* comma-free values the vertical text, the horizontal text and the horizontal
\* text with trailing commas decode to identical signals.
C14_AsStated ==
    pc = "done" => SameSignals

\* C14: for more than two distinct keys with non-blank, comma-free values,
\* where no key and not the first value starts with '#', no value is wrapped
\* in double quotes and no pair is the header key/value, the vertical text,
\* the horizontal text and the horizontal text with trailing commas decode to
\* identical signals.
C14_LayoutsAgree ==
    (pc = "done" /\ PlainFields(entries)) => SameSignals

\* three plain fields, decoded three times to the typed signals
C14_Witness ==
    /\ pc = "done" /\ PlainFields(entries)
    /\ entries = <<<<"Location.Latitude", "40.7484">>, <<"Location.Provider", "gps">>,
                   <<"Notes", "#1">>>>
    /\ result.signals = ("Location.Latitude" :> Dec(0, 40, TenThousandths(7484)))
                         @@ ("Location.Provider" :> Str("gps")) @@ ("Notes" :> Str("#1"))
    /\ SameSignals

\* the canonical name of a raw key: its alias if the table has one
AliasOrSelf(rawKey) ==
    IF LowerCase(rawKey) \in DOMAIN ALIASES THEN ALIASES[LowerCase(rawKey)] ELSE rawKey
\* the raw entries that produce a signal, and the last of them for its name
Kept(raw) == {i \in 1..Len(raw) : Trim(raw[i][2].s) # ""}
LastFor(raw, i) ==
    \A j \in Kept(raw) : AliasOrSelf(raw[j][1]) = AliasOrSelf(raw[i][1]) => j <= i
FiniteOrText(v) ==
    \/ v.t = "number"
    \/ v.t = "string" /\ v.s # "" /\ Trim(v.s) = v.s

\* C24: for every raw map extractSignals returns, without failing, a map whose
\* values are finite numbers or non-empty trimmed strings: a key absent from
\* the alias table keeps its name, a value empty after trimming gives no
\* entry, a numeric field holds the number its value parses to and the
\* trimmed string when it does not parse, any other field the trimmed string.
C24_TypedSignals ==
    pc = "again" =>
        /\ ~IsThrow(bundle)
        /\ DOMAIN bundle = {AliasOrSelf(entries[i][1]) : i \in Kept(entries)}
        /\ \A k \in DOMAIN bundle : FiniteOrText(bundle[k])
        /\ \A i \in Kept(entries) :
              LastFor(entries, i) =>
                LET name == AliasOrSelf(entries[i][1])
                    text == Trim(entries[i][2].s)
                IN  bundle[name] =
                        IF name \in NUMERIC_FIELDS /\ ParseFloat(text).t # "NaN"
                        THEN ParseFloat(text) ELSE Str(text)

\* the leaves of a parsed value in document order, each with its dot-joined
\* path: only an object is descended into
RECURSIVE LeavesUnder(_, _), LeavesOfMembers(_, _)
LeavesOfMembers(members, path) ==
    IF members = <<>> THEN <<>>
    ELSE LeavesUnder(Head(members)[2],
                     IF path = "" THEN Head(members)[1]
                     ELSE path \o "." \o Head(members)[1])
         \o LeavesOfMembers(Tail(members), path)
LeavesUnder(value, path) ==
    IF value.t = "object" THEN LeavesOfMembers(value.members, path)
    ELSE <<<<path, Str(StringOf(value))>>>>

\* of two leaves with the same path the later one is the path's value
RECURSIVE LastOfEachPath(_)
LastOfEachPath(leaves) ==
    IF leaves = <<>> THEN <<>>
    ELSE IF \E j \in 2..Len(leaves) : leaves[j][1] = Head(leaves)[1]
         THEN LastOfEachPath(Tail(leaves))
         ELSE <<Head(leaves)>> \o LastOfEachPath(Tail(leaves))

\* C25: parseJSON flattens a top-level object into dot-joined keys, descending
\* only into object values and storing every array and scalar value as one
\* string leaf; for every top-level value that is no object (a number, a
\* string, a boolean, null or an array) the raw map and the signals are empty.
C25_FlattensObjectsOnly ==
    pc = "done" /\ entries \in JsonDocuments =>
        /\ ~IsThrow(result) /\ result.format = "json"
        /\ entries.t = "object" =>
              result.signals =
                  extractSignals(LastOfEachPath(LeavesOfMembers(entries.members, "")))
        /\ entries.t # "object" =>
              result.signals = NoKeys /\ result.fileHash = Undef

\* C26: the builder and the verifier agree: every stamp createStampFromBundle
\* returns, given one signature with a non-empty value and signer, is
\* verified with structureValid and signalsConsistent true, hence valid.
C26_BuiltStampsVerify ==
    pc = "verified" =>
        /\ result.structureValid
        /\ result.signalsConsistent
        /\ result.valid

\* C27: in every built stamp each derived signal is present exactly when its
\* artifact is in the bundle, whatever keys the metadata carries: HasOTS with
\* a timestamp proof, HasPGPKey and PGP.PublicKey with a public key,
\* SafetyNet.JWT with an attestation token, PGP.MetadataSignature with a
\* non-empty metadata signature; so the evaluator's test for the OTS bonus
\* passes only for a bundle with a timestamp proof.
C27_DerivedSignalsIffArtifacts ==
    pc = "done" /\ ~IsThrow(result) =>
        LET built == DOMAIN result.signals.f
        IN  /\ "HasOTS" \in built <=> Truthy(bundle.otsProof)
            /\ "HasPGPKey" \in built <=> Truthy(bundle.publicKey)
            /\ "PGP.PublicKey" \in built <=> Truthy(bundle.publicKey)
            /\ "SafetyNet.JWT" \in built <=> Truthy(bundle.safetyNetToken)
            /\ "PGP.MetadataSignature" \in built <=>
                   (Truthy(bundle.metadataSignature)
                    /\ Len(bundle.metadataSignature.data) > 0)
            /\ IsTrue(Get(result.signals.f, "HasOTS")) => Truthy(bundle.otsProof)

\* the distances a scored distance is compared with: every half radius up to
\* four radii
HalfRadii == 0..8

\* C28: for a fixed effective radius R > 0 the spatial score does not grow
\* with the distance: every distance at least as large as the scored one
\* gets a score that is no larger, also across the boundary d = R.
C28_SpatialMonotone ==
    ScoredWithRadius =>
        \A k \in HalfRadii :
            2 * DistanceMetres <= k * RadiusMetres =>
                ScoreLe(Spatial(Ratio(k * RadiusMetres, 2), Ratio(RadiusMetres, 1)),
                        result.spatial)

\* C29: in every bundle parseBundle returns, an expectedHash that is set is
\* taken from the name of the entry whose bytes were decoded as the metadata
\* CSV, also with several .proof.csv entries and in every order of the entries.
C29_HashFromMetadataEntry ==
    (pc = "done" /\ ~IsThrow(result) /\ result.expectedHash # Undef) =>
        \E i \in EntriesEnding(entries, <<".proof", ".csv">>) :
            /\ result.metadata = parseCSV(Str(entries[i].data))
            /\ result.expectedHash = Str(BaseName(entries[i].name)[1])

\* C30: the verifier and the evaluator judge the same position: whenever
\* verifyProofModeStamp finds a stamp with Location.Latitude and
\* Location.Longitude signals valid, the point the evaluator scores, read
\* from location.coordinates longitude first, is those two signals and lies
\* within [-180, 180] and [-90, 90].
C30_SamePositionJudged ==
    (pc = "done" /\ result.valid
       /\ Get(stamp.signals.f, "Location.Latitude") # Undef
       /\ Get(stamp.signals.f, "Location.Longitude") # Undef) =>
        LET scored == extractCoords(stamp.location)
        IN  /\ scored # Null
            /\ scored.lon = Get(stamp.signals.f, "Location.Longitude")
            /\ scored.lat = Get(stamp.signals.f, "Location.Latitude")
            /\ InRange(scored.lon, -180, 180) /\ InRange(scored.lat, -90, 90)

=============================================================================
